---- MODULE Spec2Model ----
(***************************************************************************)
(* A model of solana-events-parser.                                        *)
(*                                                                         *)
(*  - log_parser.rs: Log::new (the line lexer), bind_events (the stack     *)
(*    machine that folds the lines into the per-invocation map) and        *)
(*    parse_events.                                                        *)
(*  - instruction_parser.rs: bind_instructions (the instruction binder).   *)
(*  - transaction_parser.rs: bind_transaction_instructions_logs (the      *)
(*    join of the two).                                                    *)
(*  - event_reader_service.rs: EventsReader::run, listen_events,           *)
(*    resync_events and set_last_resynced_transaction;                     *)
(*    get_transaction_by_signature (the retries of a fetch).               *)
(*  - storage.rs: the registry and the cursor in the rocksdb DB.           *)
(*  - transaction_parser.rs: get_assets_changes, and the instruction       *)
(*    handlers (is_decomposable, find_and_decompose_ix_with_decomposer,    *)
(*    parse_instruction of instruction_parser.rs).                         *)
(*                                                                         *)
(* Spec feeds parse_events one line after the other, every line of Lines   *)
(* at every position.  SpecTx runs bind_instructions and parse_events on   *)
(* one transaction and the log its execution wrote.  SpecSvc runs          *)
(* EventsReader::run: listen_events and resync_events side by side;       *)
(* SpecHandled is SpecSvc with the set of the signatures a consumer has    *)
(* handled without error kept beside it.                                   *)
(* SpecFetch runs one get_transaction_by_signature, SpecDb the calls of    *)
(* local_storage on one DB, SpecAssets one get_assets_changes and          *)
(* SpecDispatch one instruction offered to the handlers.                   *)
(***************************************************************************)
EXTENDS Integers, Sequences, FiniteSets, Bags, TLC

(***************************************************************************)
(* Bounds of the model.                                                    *)
(***************************************************************************)
\* the longest input slice handed to parse_events
MaxLines == 6
\* the most passes of the resync loop
MaxTicks == 2
\* the most messages the log subscription delivers
MaxMessages == 2
\* the longest list of token balances in the meta of a transaction
MaxBalances == 2
\* the most bytes of data of an instruction
MaxData == 9
\* the most invocations, top-level and inner, of one transaction
MaxInvocations == 4
\* the deepest invocation of a transaction
MaxDepth == 3
\* the most event lines (log, data, return, consumed) in one input
MaxEvents == 2

(***************************************************************************)
(* Pubkeys and the texts that stand for them in a log line.  "P" and "Q"   *)
(* are base58 texts of 32 bytes; "X" is a text of the base58 alphabet, 32  *)
(* characters or more, that does not decode to 32 bytes.                   *)
(***************************************************************************)
Pubkeys == {"P", "Q"}

IdTexts == Pubkeys \cup {"X"}

\* Pubkey::from_str: Ok for 32 decoded bytes, an error otherwise
PubkeyFromStr(text) ==
    IF text \in Pubkeys
    THEN [ok |-> TRUE, pubkey |-> text]
    ELSE [ok |-> FALSE, err |-> [kind |-> "WrongPubkeySize", text |-> text]]

(***************************************************************************)
(* Input lines, by the alternative of the LOG regular expression they      *)
(* match ("bad": none).  The level of an invoke line is the number its     *)
(* digits spell; 0 is spelled by digits and is no NonZeroU8.               *)
(***************************************************************************)
\* the levels the invoke lines of an input name
Levels == {1, 2}

\* "P" is invoked at either level, "Q" below the top level only
InvokeLines ==
    {[shape |-> "program_invoke", id |-> "P", level |-> n] : n \in Levels}
    \cup {[shape |-> "program_invoke", id |-> "Q", level |-> 2],
          [shape |-> "program_invoke", id |-> "X", level |-> 1],
          [shape |-> "program_invoke", id |-> "P", level |-> 0]}

SuccessLines == {[shape |-> "program_success_result", id |-> i] : i \in Pubkeys}

FailedLines ==
    {[shape |-> "program_failed_result", id |-> "Q", err |-> "custom 0x1"]}

FailedCompleteLines == {[shape |-> "program_complete_failed_result", err |-> "exceeded"]}

LogLines == {[shape |-> "program_log", text |-> t] : t \in {"L1", "L2"}}

DataLines == {[shape |-> "program_data", text |-> "D1"]}

ReturnLines == {[shape |-> "program_return", id |-> "Q", text |-> "R1"]}

ConsumedLines ==
    {[shape |-> "program_consumed", id |-> "Q", consumed |-> 1, all |-> 2]}

TruncatedLine == [shape |-> "log_truncated"]

BadLine == [shape |-> "bad"]

EventLines == LogLines \cup DataLines \cup ReturnLines \cup ConsumedLines

Lines ==
    {TruncatedLine, BadLine} \cup InvokeLines \cup SuccessLines \cup FailedLines
    \cup FailedCompleteLines \cup EventLines

\* the lines of a slice that stand behind the line the loop stopped at
TailLines == {BadLine, [shape |-> "program_log", text |-> "L1"]}

(***************************************************************************)
(* Log::new: one line to a Log value or an error.                          *)
(***************************************************************************)
LogNew(line) ==
    CASE line.shape = "log_truncated" ->
            [ok |-> TRUE, log |-> [type |-> "Truncated"]]
      [] line.shape = "program_invoke" ->
            IF ~PubkeyFromStr(line.id).ok
            THEN [ok |-> FALSE, err |-> PubkeyFromStr(line.id).err]
            ELSE IF line.level = 0 \/ line.level > 255
            THEN [ok |-> FALSE, err |-> [kind |-> "ParseLevelError"]]
            ELSE [ok |-> TRUE,
                  log |-> [type |-> "ProgramInvoke",
                           program_id |-> PubkeyFromStr(line.id).pubkey,
                           level |-> line.level]]
      [] line.shape = "program_success_result" ->
            IF ~PubkeyFromStr(line.id).ok
            THEN [ok |-> FALSE, err |-> PubkeyFromStr(line.id).err]
            ELSE [ok |-> TRUE,
                  log |-> [type |-> "ProgramResult",
                           program_id |-> PubkeyFromStr(line.id).pubkey,
                           failed |-> FALSE, err |-> ""]]
      [] line.shape = "program_failed_result" ->
            IF ~PubkeyFromStr(line.id).ok
            THEN [ok |-> FALSE, err |-> PubkeyFromStr(line.id).err]
            ELSE [ok |-> TRUE,
                  log |-> [type |-> "ProgramResult",
                           program_id |-> PubkeyFromStr(line.id).pubkey,
                           failed |-> TRUE, err |-> line.err]]
      [] line.shape = "program_complete_failed_result" ->
            [ok |-> TRUE, log |-> [type |-> "ProgramFailedComplete", err |-> line.err]]
      [] line.shape = "program_return" ->
            IF ~PubkeyFromStr(line.id).ok
            THEN [ok |-> FALSE, err |-> PubkeyFromStr(line.id).err]
            ELSE [ok |-> TRUE,
                  log |-> [type |-> "ProgramReturn",
                           program_id |-> PubkeyFromStr(line.id).pubkey,
                           data |-> line.text]]
      [] line.shape = "program_log" ->
            [ok |-> TRUE, log |-> [type |-> "ProgramLog", log |-> line.text]]
      [] line.shape = "program_data" ->
            [ok |-> TRUE, log |-> [type |-> "ProgramData", data |-> line.text]]
      [] line.shape = "program_consumed" ->
            IF ~PubkeyFromStr(line.id).ok
            THEN [ok |-> FALSE, err |-> PubkeyFromStr(line.id).err]
            ELSE [ok |-> TRUE,
                  log |-> [type |-> "ProgramConsumed",
                           program_id |-> PubkeyFromStr(line.id).pubkey,
                           consumed |-> line.consumed, all |-> line.all]]
      [] OTHER ->
            [ok |-> FALSE, err |-> [kind |-> "BadLogLine"]]

(***************************************************************************)
(* The state of one call of parse_events.                                  *)
(***************************************************************************)
VARIABLES
    input,           \* the slice handed to parse_events, as far as it is written
    index,           \* how many items bind_events has taken from the iterator
    programs_stack,  \* Vec<ProgramContext>, the top last
    call_index_map,  \* program_id -> the next call index (0 where absent)
    result,          \* HashMap<ProgramContext, Vec<ProgramLog>>
    invoked,         \* the contexts bind_events made, in the order it made them
    pc,              \* "loop": in the for loop; "stopped": left it at a line;
                     \* "exhausted": the iterator ended
    ret,             \* what parse_events returned
    tx,              \* the EncodedTransactionWithStatusMeta bind_instructions reads
    ix_pc,           \* bind_instructions: "off", "start", "top", "inner", "returned"
    ix_index,        \* the top-level instruction the binder is at, from 0
    invoke_index,    \* the inner instruction of it the binder is at, from 0
    ix_call_index_map, \* the binder's own program_id -> next call index
    instructions,    \* HashMap<InstructionContext, (Instruction, OuterInstructionProgramId)>
    bound,           \* the contexts bind_instructions made, in the order it made them
    ix_ret,          \* what bind_instructions returned
    tx_pc,           \* bind_transaction_instructions_logs: "off", "binding", "parsing",
                     \* "join", "returned"
    tx_instructions, \* its `mut instructions`: the binder's map, less what was removed
    pending,         \* the entries of the parse_events map the join has not taken yet
    meta,            \* HashMap<ProgramContext, (Instruction, Vec<ProgramLog>)> so far
    tx_ret,          \* what bind_transaction_instructions_logs returned
    config,          \* the fields of EventsReader that are set when it is built
    registry,        \* local_storage: the registered signatures of program_id
    cursor,          \* local_storage: the last resynced transaction ("None": none)
    rollback,        \* resync_rollback: the cell an operator writes ("None": empty)
    published,       \* the slots resync_ptr_setter was called with, in order
    live_pc,         \* listen_events: "off", "subscribe", "listening", "event",
                     \* "fetch", "consume", "register", "returned"
    live_sig,        \* tx_signature of the message listen_events is handling
    live_error,      \* transaction_consumer returned Err for that message
    live_ret,        \* what listen_events returned
    delivered,       \* the bag of the messages the subscription delivered
    rs_pc,           \* resync_events: "off", "sleep", "running", "commit", "publish",
                     \* "empty_publish", "empty_commit", "returned"
    tick,            \* the passes of the 'resync loop so far
    resync_last_slot, \* the slot read at the start of the tick
    batch,           \* <<all_signatures>> of the tick, newest first (<<>>: no answer)
    last_transaction, \* the candidate of the tick for the cursor
    chunks,          \* the chunk tasks of the tick
    written,         \* what the tick wrote to the cursor (NotWritten: nothing), and
                     \* whether it came from the rollback cell
    rs_ret,          \* what resync_events returned
    run_ret,         \* what run returned
    event_calls,     \* signature -> the calls of event_consumer for it
    handled,         \* the signatures a consumer has handled without error
    fetch,           \* the frame of a call of get_transaction_by_signature
    db,              \* storage.rs: the key-value pairs of the rocksdb DB
    db_call,         \* storage.rs: the last call on the DB that returned
    db_pending,      \* storage.rs: the calls of initialize_if_needed_resynced_
                     \* transaction that have read the cursor and not yet written
    assets,          \* the frame of a call of get_assets_changes
    dispatch         \* one instruction offered to the instruction handlers

log_vars == <<input, index, programs_stack, call_index_map, result, invoked, pc, ret>>

ix_vars == <<tx, ix_pc, ix_index, invoke_index, ix_call_index_map, instructions, bound,
             ix_ret>>

join_vars == <<tx_pc, tx_instructions, pending, meta, tx_ret>>

\* the history of the consumers is not kept
NotObserved == {"not observed"}

\* the tick has not written the cursor
NotWritten == [value |-> "None", rollback |-> FALSE]

svc_vars == <<config, registry, cursor, rollback, published, live_pc, live_sig,
              live_error, live_ret, delivered, rs_pc, tick, resync_last_slot,
              batch, last_transaction, chunks, written, rs_ret, run_ret, event_calls,
              handled>>

\* the calls that are modelled on their own
aux_vars == <<fetch, db, db_call, db_pending, assets, dispatch>>

vars == <<log_vars, ix_vars, join_vars, svc_vars, aux_vars>>

EmptyMap == <<>>

\* no transaction: parse_events called on a slice of its own
NoTx == [kind |-> "none"]

NoRet == [kind |-> "none"]

\* the signatures of the transactions that mention program_id, the oldest first
Chain == <<"s1", "s2">>

Signatures == {Chain[i] : i \in DOMAIN Chain}

\* no EventsReader runs
SvcOff ==
    /\ config = [kind |-> "none"]
    /\ registry = {}
    /\ cursor = "None"
    /\ rollback = "None"
    /\ published = <<>>
    /\ live_pc = "off"
    /\ live_sig = "None"
    /\ live_error = FALSE
    /\ live_ret = NoRet
    /\ delivered = EmptyBag
    /\ rs_pc = "off"
    /\ tick = 0
    /\ resync_last_slot = 0
    /\ batch = <<>>
    /\ last_transaction = "None"
    /\ chunks = <<>>
    /\ written = NotWritten
    /\ rs_ret = NoRet
    /\ run_ret = NoRet
    /\ event_calls = [sig \in Signatures |-> 0]
    /\ handled = NotObserved

\* no call is modelled on its own
AuxOff ==
    /\ fetch = [pc |-> "off"]
    /\ db = {}
    /\ db_call = [op |-> "none"]
    /\ db_pending = {}
    /\ assets = [pc |-> "off"]
    /\ dispatch = [pc |-> "off"]

\* bind_transaction_instructions_logs is not running
JoinOff ==
    /\ tx_pc = "off"
    /\ tx_instructions = EmptyMap
    /\ pending = {}
    /\ meta = EmptyMap
    /\ tx_ret = NoRet

RetOk(map) == [kind |-> "Ok", map |-> map]

RetErr(e) == [kind |-> "Err", err |-> e]

\* ProgramLog values
PLog(text) == [type |-> "Log", text |-> text]

PData(text) == [type |-> "Data", text |-> text]

PReturn(program_id, data) == [type |-> "Return", program_id |-> program_id, data |-> data]

PInvoke(ctx) == [type |-> "Invoke", ctx |-> ctx]

PConsumed(consumed, all) == [type |-> "Consumed", consumed |-> consumed, all |-> all]

ProgramContext(program_id, call_index, invoke_level) ==
    [program_id |-> program_id, call_index |-> call_index, invoke_level |-> invoke_level]

\* stack.last().copied().ok_or(EmptyInvokeLogContext { index })
last_at_stack(stack, i) ==
    IF stack = <<>>
    THEN [ok |-> FALSE, err |-> [kind |-> "EmptyInvokeLogContext", index |-> i]]
    ELSE [ok |-> TRUE, ctx |-> stack[Len(stack)]]

\* get_and_update_call_index: the value it returns ...
call_index_of(map, program_id) == map[program_id]

\* a counter that is read and never advanced
call_index_stuck(map, program_id) == map

\* ... and the map it leaves
call_index_updated(map, program_id) == [map EXCEPT ![program_id] = @ + 1]

\* an entry looked up and never created
entry_only_if_present(map, ctx) == map

\* map.entry(ctx).or_default()
entry_or_default(map, ctx) ==
    IF ctx \in DOMAIN map THEN map ELSE map @@ (ctx :> <<>>)

\* map.entry(ctx).or_default().push(event)
entry_push(map, ctx, event) ==
    [entry_or_default(map, ctx) EXCEPT ![ctx] = Append(@, event)]

\* every pop taken for the program that finished
pop_matches_any(ctx, finished_program_id) == TRUE

\* Some(ctx) if ctx.program_id.eq(&finished_program_id)
pop_matches(ctx, finished_program_id) == ctx.program_id = finished_program_id

\* the line counted from one
error_log_one_based(log, i) ==
    [kind |-> "ErrorLog", program_id |-> log.program_id, err |-> log.err, index |-> i + 1]

\* Error::ErrorLog { program_id, err, index }
error_log(log, i) ==
    [kind |-> "ErrorLog", program_id |-> log.program_id, err |-> log.err, index |-> i]

\* the entry of the outermost invocation
event_target_bottom(stack, last_ctx) == stack[1]

\* the entry an event is pushed to: that of the context last_at_stack gave
event_target(stack, last_ctx) == last_ctx

\* a consumed line never checked against the stack
consumed_never_misplaced(program_id, ctx) == FALSE

\* program_id.ne(&ctx.program_id)
consumed_misplaced(program_id, ctx) == program_id # ctx.program_id

\* an error for the invocations left open
after_loop_checks_stack(map, stack) ==
    IF stack = <<>>
    THEN [kind |-> "Ok", map |-> map]
    ELSE [kind |-> "Err", err |-> [kind |-> "BindEventError"]]

\* Ok(result) behind the loop, whatever is left on the stack
after_loop(map, stack) == RetOk(map)

\* the number of event lines among the first n lines of a slice
RECURSIVE EventCount(_, _)
EventCount(ls, n) ==
    IF n = 0 THEN 0
    ELSE EventCount(ls, n - 1) + (IF ls[n] \in EventLines THEN 1 ELSE 0)

Init ==
    /\ input = <<>>
    /\ index = 0
    /\ programs_stack = <<>>
    /\ call_index_map = [p \in Pubkeys |-> 0]
    /\ result = EmptyMap
    /\ invoked = <<>>
    /\ pc = "loop"
    /\ ret = NoRet
    /\ tx = NoTx
    /\ ix_pc = "off"
    /\ ix_index = 0
    /\ invoke_index = 0
    /\ ix_call_index_map = [p \in Pubkeys |-> 0]
    /\ instructions = EmptyMap
    /\ bound = <<>>
    /\ ix_ret = NoRet
    /\ JoinOff
    /\ SvcOff
    /\ AuxOff

\* the for loop takes `line`, the next item of input.iter().enumerate()
Takes(line) ==
    /\ pc = "loop"
    /\ index' = index + 1
    /\ UNCHANGED <<ix_vars, join_vars, svc_vars, aux_vars>>

\* the caller's slice holds `line` at the place the loop reads next
Feed(line) ==
    /\ Len(input) < MaxLines
    /\ line \in EventLines => EventCount(input, Len(input)) < MaxEvents
    /\ input' = Append(input, line)

\* a break or a return at the line the loop holds
Returns(r) ==
    /\ pc' = "stopped"
    /\ ret' = r

\* a line that does not lex is skipped
OnLexErrorSkips(line) ==
    /\ Takes(line)
    /\ ~LogNew(line).ok
    /\ UNCHANGED <<programs_stack, call_index_map, result, invoked, pc, ret>>

\* log?: Log::new failed on the line
OnLexError(line) ==
    /\ Takes(line)
    /\ ~LogNew(line).ok
    /\ Returns(RetErr(LogNew(line).err))
    /\ UNCHANGED <<programs_stack, call_index_map, result, invoked>>

\* Log::Truncated => break, and Ok(result) behind the loop
OnTruncated(line) ==
    /\ Takes(line)
    /\ LogNew(line).ok
    /\ LogNew(line).log.type = "Truncated"
    /\ Returns(after_loop(result, programs_stack))
    /\ UNCHANGED <<programs_stack, call_index_map, result, invoked>>

\* Log::ProgramInvoke { program_id, level }
OnInvoke(line) ==
    /\ Takes(line)
    /\ LogNew(line).ok
    /\ LogNew(line).log.type = "ProgramInvoke"
    /\ LET log == LogNew(line).log
           new_ctx == ProgramContext(log.program_id,
                                     call_index_of(call_index_map, log.program_id),
                                     log.level)
           parent == last_at_stack(programs_stack, index)
           with_parent == IF parent.ok
                          THEN entry_push(result, parent.ctx, PInvoke(new_ctx))
                          ELSE result
           pushed == Append(programs_stack, new_ctx)
       IN /\ call_index_map' = call_index_updated(call_index_map, log.program_id)
          /\ programs_stack' = pushed
          /\ result' = entry_or_default(with_parent, last_at_stack(pushed, index).ctx)
          /\ invoked' = Append(invoked, new_ctx)
    /\ UNCHANGED <<pc, ret>>

\* Log::ProgramResult { program_id, err: None } => match programs_stack.pop()
OnSuccess(line) ==
    /\ Takes(line)
    /\ LogNew(line).ok
    /\ LogNew(line).log.type = "ProgramResult"
    /\ ~LogNew(line).log.failed
    /\ LET finished_program_id == LogNew(line).log.program_id
       IN IF programs_stack = <<>>
          THEN /\ Returns(RetErr([kind |-> "UnexpectedProgramResult",
                                  index |-> index,
                                  program_id |-> finished_program_id,
                                  expected_program |-> "None",
                                  level |-> 0]))
               /\ UNCHANGED programs_stack
          ELSE LET ctx == programs_stack[Len(programs_stack)]
               IN /\ programs_stack' = SubSeq(programs_stack, 1, Len(programs_stack) - 1)
                  /\ IF pop_matches(ctx, finished_program_id)
                     THEN UNCHANGED <<pc, ret>>
                     ELSE Returns(RetErr([kind |-> "UnexpectedProgramResult",
                                          index |-> index,
                                          program_id |-> ctx.program_id,
                                          expected_program |-> finished_program_id,
                                          level |-> ctx.invoke_level]))
    /\ UNCHANGED <<call_index_map, result, invoked>>

\* Log::ProgramResult { program_id, err: Some(err) }
OnFailed(line) ==
    /\ Takes(line)
    /\ LogNew(line).ok
    /\ LogNew(line).log.type = "ProgramResult"
    /\ LogNew(line).log.failed
    /\ Returns(RetErr(error_log(LogNew(line).log, index)))
    /\ UNCHANGED <<programs_stack, call_index_map, result, invoked>>

\* Log::ProgramFailedComplete { err }
OnFailedComplete(line) ==
    /\ Takes(line)
    /\ LogNew(line).ok
    /\ LogNew(line).log.type = "ProgramFailedComplete"
    /\ Returns(RetErr([kind |-> "ErrorToCompleteLog",
                       err |-> LogNew(line).log.err,
                       index |-> index]))
    /\ UNCHANGED <<programs_stack, call_index_map, result, invoked>>

\* result.entry(last_at_stack(&programs_stack, index)?).or_default().push(event)
PushToLast(event) ==
    LET last == last_at_stack(programs_stack, index)
    IN IF last.ok
       THEN /\ result' = entry_push(result, event_target(programs_stack, last.ctx), event)
            /\ UNCHANGED <<pc, ret>>
       ELSE /\ Returns(RetErr(last.err))
            /\ UNCHANGED result

\* Log::ProgramLog { log }
OnLog(line) ==
    /\ Takes(line)
    /\ LogNew(line).ok
    /\ LogNew(line).log.type = "ProgramLog"
    /\ PushToLast(PLog(LogNew(line).log.log))
    /\ UNCHANGED <<programs_stack, call_index_map, invoked>>

\* Log::ProgramReturn { program_id, data }
OnReturn(line) ==
    /\ Takes(line)
    /\ LogNew(line).ok
    /\ LogNew(line).log.type = "ProgramReturn"
    /\ PushToLast(PReturn(LogNew(line).log.program_id, LogNew(line).log.data))
    /\ UNCHANGED <<programs_stack, call_index_map, invoked>>

\* Log::ProgramData { data }
OnData(line) ==
    /\ Takes(line)
    /\ LogNew(line).ok
    /\ LogNew(line).log.type = "ProgramData"
    /\ PushToLast(PData(LogNew(line).log.data))
    /\ UNCHANGED <<programs_stack, call_index_map, invoked>>

\* Log::ProgramConsumed { program_id, consumed, all }
OnConsumed(line) ==
    /\ Takes(line)
    /\ LogNew(line).ok
    /\ LogNew(line).log.type = "ProgramConsumed"
    /\ LET log == LogNew(line).log
           last == last_at_stack(programs_stack, index)
       IN IF ~last.ok
          THEN /\ Returns(RetErr(last.err))
               /\ UNCHANGED result
          ELSE IF consumed_misplaced(log.program_id, last.ctx)
          THEN /\ Returns(RetErr([kind |-> "MissplaceConsumed",
                                  expected_program |-> last.ctx.program_id,
                                  consumed_program_id |-> log.program_id,
                                  index |-> index]))
               /\ UNCHANGED result
          ELSE PushToLast(PConsumed(log.consumed, log.all))
    /\ UNCHANGED <<programs_stack, call_index_map, invoked>>

\* the iterator is exhausted: Ok(result) behind the loop
EndOfInput ==
    /\ pc = "loop"
    /\ index = Len(input)
    /\ pc' = "exhausted"
    /\ ret' = after_loop(result, programs_stack)
    /\ UNCHANGED <<input, index, programs_stack, call_index_map, result, invoked>>
    /\ UNCHANGED <<ix_vars, join_vars, svc_vars, aux_vars>>

\* a line of the slice behind the Truncated line the loop broke at: never taken
Unread(line) ==
    /\ pc = "stopped"
    /\ ret.kind = "Ok"
    /\ Len(input) < MaxLines
    /\ input' = Append(input, line)
    /\ UNCHANGED <<index, programs_stack, call_index_map, result, invoked, pc, ret>>
    /\ UNCHANGED <<ix_vars, join_vars, svc_vars, aux_vars>>

\* one turn of the for loop of bind_events, by the arm of the match that takes
\* the item
BindEventsStep(line) ==
    \/ OnLexError(line)
    \/ OnTruncated(line)
    \/ OnInvoke(line)
    \/ OnSuccess(line)
    \/ OnFailed(line)
    \/ OnFailedComplete(line)
    \/ OnLog(line)
    \/ OnReturn(line)
    \/ OnData(line)
    \/ OnConsumed(line)

\* parse_events on every slice of at most MaxLines lines of Lines: each arm is
\* tried on the lines of its shape
Next ==
    \/ \E line \in Lines : Feed(line) /\ OnLexError(line)
    \/ Feed(TruncatedLine) /\ OnTruncated(TruncatedLine)
    \/ \E line \in InvokeLines : Feed(line) /\ OnInvoke(line)
    \/ \E line \in SuccessLines : Feed(line) /\ OnSuccess(line)
    \/ \E line \in FailedLines : Feed(line) /\ OnFailed(line)
    \/ \E line \in FailedCompleteLines : Feed(line) /\ OnFailedComplete(line)
    \/ \E line \in LogLines : Feed(line) /\ OnLog(line)
    \/ \E line \in ReturnLines : Feed(line) /\ OnReturn(line)
    \/ \E line \in DataLines : Feed(line) /\ OnData(line)
    \/ \E line \in ConsumedLines : Feed(line) /\ OnConsumed(line)
    \/ EndOfInput
    \/ \E line \in TailLines : Unread(line)

Spec == Init /\ [][Next]_vars


(***************************************************************************)
(* Transactions.  An execution is the sequence of the invocations of a     *)
(* transaction in the order they ran, each with its program and its depth; *)
(* the transaction the RPC returns for it names the invocations of depth 1 *)
(* as the instructions of the message and the deeper ones, in that order,  *)
(* in the inner-instruction list of their top-level instruction, and its   *)
(* log holds one invoke line per invocation.                               *)
(***************************************************************************)
\* the effective account vector: static keys, then the loaded addresses
AccountKeys == <<"P", "Q">>

KeyIndex(program_id) == (CHOOSE i \in 1..Len(AccountKeys) : AccountKeys[i] = program_id) - 1

Executions ==
    UNION {
        {ex \in [1..n -> [program_id : Pubkeys, level : 1..MaxDepth]] :
            /\ ex[1].level = 1
            /\ \A i \in 1..(n - 1) : ex[i + 1].level <= ex[i].level + 1}
        : n \in 1..MaxInvocations}

\* the places of the top-level invocations of an execution, in order
TopPlaces(ex) == SelectSeq([i \in 1..Len(ex) |-> i], LAMBDA i : ex[i].level = 1)

\* the inner invocations of the top-level invocation at place t
InnerOf(ex, t) ==
    LET later == {i \in (t + 1)..Len(ex) : ex[i].level = 1}
        last == IF later = {} THEN Len(ex)
                ELSE (CHOOSE i \in later : \A m \in later : i <= m) - 1
    IN SubSeq(ex, t + 1, last)

\* msg.instructions()
MessageInstructions(ex) ==
    [k \in 1..Len(TopPlaces(ex)) |->
        [program_id_index |-> KeyIndex(ex[TopPlaces(ex)[k]].program_id)]]

\* one UiInstruction::Compiled
CompiledFrame(e) ==
    [kind |-> "Compiled", program_id_index |-> KeyIndex(e.program_id), data_ok |-> TRUE]

\* meta.inner_instructions: an entry for each top-level instruction that invoked
InnerInstructions(ex) ==
    LET tops == TopPlaces(ex)
        entry(k) == [index |-> k - 1,
                     instructions |-> [j \in 1..Len(InnerOf(ex, tops[k])) |->
                                          CompiledFrame(InnerOf(ex, tops[k])[j])]]
        with_inner == SelectSeq([k \in 1..Len(tops) |-> k],
                                LAMBDA k : InnerOf(ex, tops[k]) # <<>>)
    IN [m \in 1..Len(with_inner) |-> entry(with_inner[m])]

\* the success lines that close the invocations of a stack, the top first
RECURSIVE Closes(_)
Closes(stack) ==
    IF stack = <<>> THEN <<>>
    ELSE <<[shape |-> "program_success_result", id |-> stack[Len(stack)]]>>
         \o Closes(SubSeq(stack, 1, Len(stack) - 1))

\* meta.log_messages of an execution that succeeded: one invoke line per
\* invocation, one success line when it returns
RECURSIVE RenderLog(_, _, _)
RenderLog(ex, i, stack) ==
    IF i > Len(ex) THEN Closes(stack)
    ELSE IF Len(stack) >= ex[i].level
    THEN <<[shape |-> "program_success_result", id |-> stack[Len(stack)]]>>
         \o RenderLog(ex, i, SubSeq(stack, 1, Len(stack) - 1))
    ELSE <<[shape |-> "program_invoke", id |-> ex[i].program_id, level |-> ex[i].level]>>
         \o RenderLog(ex, i + 1, Append(stack, ex[i].program_id))

\* the log cut behind its first `cut` lines, as the runtime cuts a long log
TruncatedLog(log, cut) == SubSeq(log, 1, cut) \o <<TruncatedLine>>

\* the log of an execution whose last invocation failed: it and the invocations
\* it was called from write a failed line where they would write success
FailedLog(ex) ==
    LET log == RenderLog(ex, 1, <<>>)
        open == ex[Len(ex)].level
    IN [i \in 1..Len(log) |->
           IF i > Len(log) - open
           THEN [shape |-> "program_failed_result", id |-> log[i].id, err |-> "custom 0x1"]
           ELSE log[i]]

\* the last inner frame of the last entry is a UiInstruction::Parsed / carries
\* data that is no base58
WithLastFrame(inner, field, value) ==
    IF inner = <<>> THEN inner
    ELSE LET e == inner[Len(inner)]
         IN [inner EXCEPT ![Len(inner)] =
                [e EXCEPT !.instructions =
                    [@ EXCEPT ![Len(@)] = [@ EXCEPT ![field] = value]]]]

\* what may be wrong with a transaction.  silent_first: the first instruction
\* runs a precompile, which logs nothing; dropped_inner: the inner-instruction
\* lists are missing; dup_index: two lists carry one index; stray_index: a list
\* carries the index of no instruction; bad_index, bad_inner_index: a
\* program_id_index behind the end of the account vector
Faults == {"none", "undecodable", "signature", "no_meta", "no_inner", "parsed_inner",
           "bad_data", "silent_first", "no_logs", "dropped_inner", "dup_index",
           "stray_index", "bad_index", "bad_inner_index", "bad_balance"}

\* the invocations of an execution that write an invoke line
Logged(ex, fault) ==
    IF fault = "silent_first" /\ Len(ex) >= 2 /\ ex[2].level = 1 THEN Tail(ex) ELSE ex

\* the first inner-instruction list in two lists of the same index
SplitFirst(inner) ==
    IF inner = <<>> \/ Len(inner[1].instructions) < 2 THEN inner
    ELSE << [index |-> inner[1].index,
             instructions |-> SubSeq(inner[1].instructions, 1, 1)],
            [index |-> inner[1].index,
             instructions |-> SubSeq(inner[1].instructions, 2,
                                     Len(inner[1].instructions))] >>
         \o Tail(inner)

\* one more list, under the index behind the last instruction of the message
WithStray(inner, ex) ==
    Append(inner, [index |-> Len(MessageInstructions(ex)),
                   instructions |-> <<CompiledFrame([program_id |-> "P", level |-> 2])>>])

\* the EncodedTransactionWithStatusMeta of an execution
MakeTx(ex, log, fault) ==
    [kind |-> "tx",
     execution |-> ex,
     decodable |-> fault # "undecodable",
     signature_matches |-> fault # "signature",
     instructions |->
        IF fault = "bad_index"
        THEN [MessageInstructions(ex) EXCEPT
                 ![Len(MessageInstructions(ex))].program_id_index = Len(AccountKeys)]
        ELSE MessageInstructions(ex),
     has_meta |-> fault # "no_meta",
     has_inner_instructions |-> fault # "no_inner",
     inner_instructions |->
        CASE fault = "parsed_inner" -> WithLastFrame(InnerInstructions(ex), "kind", "Parsed")
          [] fault = "bad_data" -> WithLastFrame(InnerInstructions(ex), "data_ok", FALSE)
          [] fault = "bad_inner_index" ->
                WithLastFrame(InnerInstructions(ex), "program_id_index", Len(AccountKeys))
          [] fault = "dropped_inner" -> <<>>
          [] fault = "dup_index" -> SplitFirst(InnerInstructions(ex))
          [] fault = "stray_index" -> WithStray(InnerInstructions(ex), ex)
          [] OTHER -> InnerInstructions(ex),
     has_log_messages |-> fault # "no_logs",
     log_messages |-> log,
     balances_ok |-> fault # "bad_balance"]

\* the transactions of one execution: one for each fault, one that failed, and
\* one for each place where the log may be cut
TransactionsOf(ex) ==
    {MakeTx(ex, RenderLog(Logged(ex, f), 1, <<>>), f) : f \in Faults}
    \cup {MakeTx(ex, FailedLog(ex), "none")}
    \cup {MakeTx(ex, TruncatedLog(RenderLog(ex, 1, <<>>), cut), "none") :
             cut \in 0..(Len(RenderLog(ex, 1, <<>>)) - 1)}

(***************************************************************************)
(* bind_instructions.                                                      *)
(***************************************************************************)
InstructionContext(program_id, call_index) ==
    [program_id |-> program_id, call_index |-> call_index]

\* one counter for every program
ix_call_index_global(map, program_id) == [p \in DOMAIN map |-> map[p] + 1]

\* the binder's own get_and_update_call_index: the value it returns ...
ix_call_index_of(map, program_id) == map[program_id]

\* ... and the map it leaves
ix_call_index_updated(map, program_id) == [map EXCEPT ![program_id] = @ + 1]

\* result.insert(ctx, value)
map_insert(map, key, value) ==
    IF key \in DOMAIN map THEN [map EXCEPT ![key] = value] ELSE map @@ (key :> value)

\* inner_instructions (the HashMap collected from the list) .get(&ix_index)
inner_instructions_get(list, i) ==
    LET places == {k \in 1..Len(list) : list[k].index = i}
    IN IF places = {} THEN [some |-> FALSE]
       ELSE [some |-> TRUE,
             instructions |-> list[CHOOSE k \in places : \A m \in places : m <= k].instructions]

\* the thread panicked: no value is returned
Panicked == [kind |-> "Panic"]

\* accounts[i]: a value, or "index out of bounds"
InAccounts(i) == i + 1 \in DOMAIN AccountKeys

IxReturns(r) ==
    /\ ix_pc' = "returned"
    /\ ix_ret' = r

\* decode, the signature check, meta and meta.inner_instructions
BindStart ==
    /\ ix_pc = "start"
    /\ IF ~tx.decodable \/ ~tx.signature_matches
       THEN IxReturns(RetErr([kind |-> "ErrorWhileDecodeTransaction"]))
       ELSE IF ~tx.has_meta
       THEN IxReturns(RetErr([kind |-> "EmptyMetaInTransaction"]))
       ELSE IF ~tx.has_inner_instructions
       THEN IxReturns(RetErr([kind |-> "EmptyInnerInstructionInTransaction"]))
       ELSE ix_pc' = "top" /\ UNCHANGED ix_ret
    /\ UNCHANGED <<tx, ix_index, invoke_index, ix_call_index_map, instructions, bound>>
    /\ UNCHANGED <<log_vars, join_vars, svc_vars, aux_vars>>

\* for (ix_index, compiled_ix) in msg.instructions(): the top-level instruction
BindTop ==
    /\ ix_pc = "top"
    /\ ix_index < Len(tx.instructions)
    /\ LET compiled_ix == tx.instructions[ix_index + 1]
           program_id == AccountKeys[compiled_ix.program_id_index + 1]
           ctx == InstructionContext(program_id,
                                     ix_call_index_of(ix_call_index_map, program_id))
           invokes == inner_instructions_get(tx.inner_instructions, ix_index)
       IN IF ~InAccounts(compiled_ix.program_id_index)
          THEN /\ IxReturns(Panicked)
               /\ UNCHANGED <<ix_index, ix_call_index_map, instructions, bound>>
          ELSE /\ ix_call_index_map' = ix_call_index_updated(ix_call_index_map, program_id)
               /\ instructions' = map_insert(instructions, ctx,
                                             [ix |-> [program_id |-> program_id,
                                                      top |-> ix_index, inner |-> 0],
                                              outer |-> "None"])
               /\ bound' = Append(bound, ctx)
               /\ IF invokes.some /\ invokes.instructions # <<>>
                  THEN ix_pc' = "inner" /\ UNCHANGED ix_index
                  ELSE ix_index' = ix_index + 1 /\ UNCHANGED ix_pc
               /\ UNCHANGED ix_ret
    /\ invoke_index' = 0
    /\ UNCHANGED tx
    /\ UNCHANGED <<log_vars, join_vars, svc_vars, aux_vars>>

\* for (invoke_index, invoke) in invokes: one inner instruction
BindInner ==
    /\ ix_pc = "inner"
    /\ LET invokes == inner_instructions_get(tx.inner_instructions, ix_index).instructions
           invoke == invokes[invoke_index + 1]
           outer == AccountKeys[tx.instructions[ix_index + 1].program_id_index + 1]
           program_id == AccountKeys[invoke.program_id_index + 1]
           ctx == InstructionContext(program_id,
                                     ix_call_index_of(ix_call_index_map, program_id))
           stays == UNCHANGED <<ix_index, invoke_index, ix_call_index_map, instructions,
                                bound>>
       IN IF invoke.kind = "Parsed"
          THEN IxReturns(RetErr([kind |-> "ParsedInnerInstructionNotSupported"])) /\ stays
          ELSE IF ~InAccounts(invoke.program_id_index)
          THEN IxReturns(Panicked) /\ stays
          ELSE IF ~invoke.data_ok
          THEN IxReturns(RetErr([kind |-> "ErrorWhileDecodeData"])) /\ stays
          ELSE /\ ix_call_index_map' = ix_call_index_updated(ix_call_index_map, program_id)
               /\ instructions' = map_insert(instructions, ctx,
                                             [ix |-> [program_id |-> program_id,
                                                      top |-> ix_index,
                                                      inner |-> invoke_index + 1],
                                              outer |-> outer])
               /\ bound' = Append(bound, ctx)
               /\ IF invoke_index + 1 < Len(invokes)
                  THEN /\ invoke_index' = invoke_index + 1
                       /\ UNCHANGED <<ix_pc, ix_index>>
                  ELSE /\ ix_pc' = "top"
                       /\ ix_index' = ix_index + 1
                       /\ UNCHANGED invoke_index
               /\ UNCHANGED ix_ret
    /\ UNCHANGED tx
    /\ UNCHANGED <<log_vars, join_vars, svc_vars, aux_vars>>

\* Ok(result) behind the loop over the instructions of the message
BindEnd ==
    /\ ix_pc = "top"
    /\ ix_index = Len(tx.instructions)
    /\ IxReturns(RetOk(instructions))
    /\ UNCHANGED <<tx, ix_index, invoke_index, ix_call_index_map, instructions, bound>>
    /\ UNCHANGED <<log_vars, join_vars, svc_vars, aux_vars>>

(***************************************************************************)
(* bind_transaction_instructions_logs: bind_instructions, then             *)
(* parse_events on meta.log_messages.                                      *)
(***************************************************************************)
InitTx ==
    /\ \E ex \in Executions : tx \in TransactionsOf(ex)
    /\ ix_pc = "start"
    /\ ix_index = 0
    /\ invoke_index = 0
    /\ ix_call_index_map = [p \in Pubkeys |-> 0]
    /\ instructions = EmptyMap
    /\ bound = <<>>
    /\ ix_ret = NoRet
    /\ input = <<>>
    /\ index = 0
    /\ programs_stack = <<>>
    /\ call_index_map = [p \in Pubkeys |-> 0]
    /\ result = EmptyMap
    /\ invoked = <<>>
    /\ pc = "waiting"
    /\ ret = NoRet
    /\ tx_pc = "binding"
    /\ tx_instructions = EmptyMap
    /\ pending = {}
    /\ meta = EmptyMap
    /\ tx_ret = NoRet
    /\ SvcOff
    /\ AuxOff

TxReturns(r) ==
    /\ tx_pc' = "returned"
    /\ tx_ret' = r

\* bind_instructions(signature)? did not go through
BindFailed ==
    /\ tx_pc = "binding"
    /\ ix_pc = "returned"
    /\ ix_ret.kind # "Ok"
    /\ TxReturns(IF ix_ret = Panicked THEN Panicked
                 ELSE RetErr([kind |-> "InstructionParsingError", err |-> ix_ret.err]))
    /\ UNCHANGED <<tx_instructions, pending, meta>>
    /\ UNCHANGED <<log_vars, ix_vars, svc_vars, aux_vars>>

\* bind_instructions(signature)? went through: meta, meta.log_messages, then
\* parse_events(log_messages)
StartParse ==
    /\ tx_pc = "binding"
    /\ pc = "waiting"
    /\ ix_pc = "returned"
    /\ ix_ret.kind = "Ok"
    /\ tx_instructions' = ix_ret.map
    /\ IF ~tx.has_meta
       THEN /\ TxReturns(RetErr([kind |-> "EmptyMetaInTransaction"]))
            /\ UNCHANGED <<input, pc>>
       ELSE IF ~tx.has_log_messages
       THEN /\ TxReturns(RetErr([kind |-> "EmptyLogsInTransaction"]))
            /\ UNCHANGED <<input, pc>>
       ELSE /\ input' = tx.log_messages
            /\ pc' = "loop"
            /\ tx_pc' = "parsing"
            /\ UNCHANGED tx_ret
    /\ UNCHANGED <<index, programs_stack, call_index_map, result, invoked, ret>>
    /\ UNCHANGED <<pending, meta>>
    /\ UNCHANGED <<ix_vars, svc_vars, aux_vars>>

\* the loop of bind_events takes the next line of log_messages
ReadLog ==
    /\ index < Len(input)
    /\ UNCHANGED input
    /\ BindEventsStep(input[index + 1])

\* parse_events(..)? did not go through
ParseFailed ==
    /\ tx_pc = "parsing"
    /\ pc \in {"stopped", "exhausted"}
    /\ ret.kind = "Err"
    /\ TxReturns(RetErr([kind |-> "LogParseError", err |-> ret.err]))
    /\ UNCHANGED <<tx_instructions, pending, meta>>
    /\ UNCHANGED <<log_vars, ix_vars, svc_vars, aux_vars>>

\* parse_events(..)? went through: .into_iter() over its map
JoinStart ==
    /\ tx_pc = "parsing"
    /\ pc \in {"stopped", "exhausted"}
    /\ ret.kind = "Ok"
    /\ tx_pc' = "join"
    /\ pending' = DOMAIN ret.map
    /\ UNCHANGED <<tx_instructions, meta, tx_ret>>
    /\ UNCHANGED <<log_vars, ix_vars, svc_vars, aux_vars>>

\* the consistency check of one entry: no outer instruction at level 1
\* with no regard to the level
outer_fits_any_level(outer, invoke_level) == TRUE

\* (outer_ix.is_none() && level == 1) || (outer_ix.is_some() && level != 1)
outer_fits_level(outer, invoke_level) ==
    \/ outer = "None" /\ invoke_level = 1
    \/ outer # "None" /\ invoke_level # 1

\* a removal that finds an inner instruction under every key
removed_entry_lenient(map, key) ==
    [some |-> TRUE,
     value |-> IF key \in DOMAIN map THEN map[key]
               ELSE [ix |-> [program_id |-> key.program_id, top |-> 0, inner |-> 1],
                     outer |-> key.program_id]]

\* instructions.remove(&ix_ctx): the entry, if any ...
removed_entry(map, key) ==
    IF key \in DOMAIN map THEN [some |-> TRUE, value |-> map[key]] ELSE [some |-> FALSE]

\* ... and the map it leaves
map_remove(map, key) == [k \in DOMAIN map \ {key} |-> map[k]]

\* the closure of .map() on one (ctx, events), the HashMap's iterator choosing
\* which; collect::<Result<_, _>>()? stops at the first Err
JoinEntry ==
    /\ tx_pc = "join"
    /\ \E ctx \in pending :
          LET ix_ctx == InstructionContext(ctx.program_id, ctx.call_index)
              found == removed_entry(tx_instructions, ix_ctx)
          IN /\ tx_instructions' = map_remove(tx_instructions, ix_ctx)
             /\ IF ~found.some
                THEN /\ TxReturns(RetErr([kind |-> "InstructionLogsConsistencyError",
                                          ctx |-> ix_ctx]))
                     /\ UNCHANGED <<pending, meta>>
                ELSE IF ~outer_fits_level(found.value.outer, ctx.invoke_level)
                THEN /\ TxReturns(RetErr([kind |-> "InstructionLogsConsistencyError",
                                          ctx |-> ix_ctx]))
                     /\ UNCHANGED <<pending, meta>>
                ELSE /\ meta' = map_insert(meta, ctx, [ix |-> found.value.ix,
                                                       events |-> ret.map[ctx]])
                     /\ pending' = pending \ {ctx}
                     /\ UNCHANGED <<tx_pc, tx_ret>>
    /\ UNCHANGED <<log_vars, ix_vars, svc_vars, aux_vars>>

\* parent_ix: (child, parent) for every ProgramLog::Invoke(child) of the events
\* of every parent, collected to a map
parent_ix_of(joined) ==
    LET invokes_of(parent) == {n \in 1..Len(joined[parent].events) :
                                  joined[parent].events[n].type = "Invoke"}
        children == UNION {{joined[parent].events[n].ctx : n \in invokes_of(parent)} :
                           parent \in DOMAIN joined}
    IN [child \in children |->
           CHOOSE parent \in DOMAIN joined :
               \E n \in invokes_of(parent) : joined[parent].events[n].ctx = child]

\* every entry joined: Ok(TransactionParsedMeta { .. }), get_lamports_changes(..)?
\* and get_assets_changes(..)? evaluated for its fields
JoinEnd ==
    /\ tx_pc = "join"
    /\ pending = {}
    /\ TxReturns(IF tx.balances_ok
                 THEN [kind |-> "Ok", meta |-> meta, parent_ix |-> parent_ix_of(meta)]
                 ELSE RetErr([kind |-> "ParseIntError"]))
    /\ UNCHANGED <<tx_instructions, pending, meta>>
    /\ UNCHANGED <<log_vars, ix_vars, svc_vars, aux_vars>>

NextTx ==
    \/ BindStart
    \/ BindTop
    \/ BindInner
    \/ BindEnd
    \/ BindFailed
    \/ StartParse
    \/ ReadLog
    \/ EndOfInput
    \/ ParseFailed
    \/ JoinStart
    \/ JoinEntry
    \/ JoinEnd

SpecTx == InitTx /\ [][NextTx]_vars

(***************************************************************************)
(* event_reader_service.rs: EventsReader::run and its two tasks,           *)
(* listen_events (the Live Task) and resync_events (the Resync Task) with  *)
(* the chunk tasks it spawns.  A step is what a task does between two      *)
(* points where another task can run: an await or a call of local_storage. *)
(* What the RPC node, the consumers, the storage and resync_ptr_setter     *)
(* answer is chosen at the step that asks.                                 *)
(***************************************************************************)
\* the ways the reader is built, and which transactions of the chain failed; the
\* orders and chunk sizes are spread over the ways so that each value occurs with
\* both tasks enabled, and a Historical resync of a chain without failures with
\* the Resync Task alone and the batch in one chunk; one way has both tasks
\* disabled, and one has the Resync Task alone with the chunk size 0
Configs ==
    {c \in [kind : {"EventsReader"},
            pubsub_client : BOOLEAN,
            is_resync_enabled : BOOLEAN,
            \* an Option: <<>> is None, <<n>> is Some(n)
            resync_signatures_chunk_size : {<<>>, <<0>>, <<1>>},
            resync_order : {"Newest", "Historical"},
            \* the signatures whose transaction failed on chain: d.err is Some
            failed_on_chain : {{}, {Chain[Len(Chain)]}}] :
        /\ c.failed_on_chain # {} => c.resync_order = "Historical"
        /\ (c.resync_order = "Historical" /\ c.failed_on_chain = {}) =>
              ~c.pubsub_client /\ c.resync_signatures_chunk_size = <<>>
        /\ ~c.is_resync_enabled =>
              c.resync_signatures_chunk_size = <<>> /\ c.resync_order = "Newest"
        /\ c.resync_signatures_chunk_size = <<0>> =>
              /\ ~c.pubsub_client /\ c.is_resync_enabled
              /\ c.resync_order = "Newest" /\ c.failed_on_chain = {}
        /\ ~c.pubsub_client =>
              \/ c.resync_signatures_chunk_size \in {<<0>>, <<1>>}
              \/ c.resync_order = "Historical" /\ c.failed_on_chain = {}
              \/ ~c.is_resync_enabled}

Reverse(seq) == [i \in 1..Len(seq) |-> seq[Len(seq) + 1 - i]]

\* get_signatures_data_for_address_with_config(.., until): the signatures newer
\* than `until`, the newest first
SignaturesSince(until) ==
    LET from == IF until = "None" THEN 0
                ELSE CHOOSE i \in DOMAIN Chain : Chain[i] = until
    IN Reverse(SubSeq(Chain, from + 1, Len(Chain)))

\* the first signature that is left after the error filter and the reordering
first_success_signature(all_signatures) ==
    LET kept == SelectSeq(all_signatures, LAMBDA sig : sig \notin config.failed_on_chain)
        ordered == IF config.resync_order = "Historical" THEN Reverse(kept) ELSE kept
    IN IF ordered = <<>> THEN "None" ELSE ordered[1]

\* all_signatures.first().map(|d| d.signature)
first_signature(all_signatures) ==
    IF all_signatures = <<>> THEN "None" ELSE all_signatures[1]

\* the error filter without the .rev() of Historical
kept_signatures(all_signatures, failed, order) ==
    SelectSeq(all_signatures, LAMBDA sig : sig \notin failed)

\* filter_map(|d| d.err.is_none().then_some(d.signature)), .rev() for Historical
success_signatures(all_signatures, failed, order) ==
    LET kept == SelectSeq(all_signatures, LAMBDA sig : sig \notin failed)
    IN IF order = "Historical" THEN Reverse(kept) ELSE kept

\* filter_unregistered_transactions
filter_unregistered(signatures, registered) ==
    SelectSeq(signatures, LAMBDA sig : sig \notin registered)

\* chunks(size) of the slice type asserts that the size is not zero and panics
\* otherwise
chunks_panics(size) == size = 0

\* signatures.as_slice().chunks(size), for a size that is not zero
RECURSIVE slice_chunks(_, _)
slice_chunks(signatures, size) ==
    IF Len(signatures) <= size THEN <<signatures>>
    ELSE <<SubSeq(signatures, 1, size)>>
         \o slice_chunks(SubSeq(signatures, size + 1, Len(signatures)), size)

\* a chunk task as it is spawned: is_chunk_successfull_processed = true
ChunkTask(signatures) ==
    [sigs |-> signatures, at |-> "fetch", ok |-> TRUE, result |-> "running"]

\* the chunk task is through with the signature at hand
NextSignature(task) ==
    IF Len(task.sigs) = 1
    THEN [task EXCEPT !.sigs = <<>>, !.at = "done",
                      !.result = IF task.ok THEN "true" ELSE "false"]
    ELSE [task EXCEPT !.sigs = Tail(task.sigs), !.at = "fetch"]

Called(calls, sig) == [calls EXCEPT ![sig] = @ + 1]

live_vars == <<live_pc, live_sig, live_error, live_ret, delivered, event_calls>>

resync_vars == <<rs_pc, tick, resync_last_slot, batch, last_transaction, chunks, written,
                 rs_ret, cursor, rollback, published>>

\* the reader as `new` builds it, and run is called
InitService(history) ==
    /\ config \in Configs
    /\ registry = {}
    /\ cursor = "None"
    /\ rollback = "None"
    /\ published = <<>>
    /\ live_pc = "subscribe"
    /\ live_sig = "None"
    /\ live_error = FALSE
    /\ live_ret = NoRet
    /\ delivered = EmptyBag
    /\ rs_pc = "sleep"
    /\ tick = 0
    /\ resync_last_slot = 0
    /\ batch = <<>>
    /\ last_transaction = "None"
    /\ chunks = <<>>
    /\ written = NotWritten
    /\ rs_ret = NoRet
    /\ run_ret = NoRet
    /\ event_calls = [sig \in Signatures |-> 0]
    /\ handled = history
    /\ input = <<>>
    /\ index = 0
    /\ programs_stack = <<>>
    /\ call_index_map = [p \in Pubkeys |-> 0]
    /\ result = EmptyMap
    /\ invoked = <<>>
    /\ pc = "off"
    /\ ret = NoRet
    /\ tx = NoTx
    /\ ix_pc = "off"
    /\ ix_index = 0
    /\ invoke_index = 0
    /\ ix_call_index_map = [p \in Pubkeys |-> 0]
    /\ instructions = EmptyMap
    /\ bound = <<>>
    /\ ix_ret = NoRet
    /\ JoinOff
    /\ AuxOff

SvcFrame == UNCHANGED <<config, log_vars, ix_vars, join_vars, aux_vars>>

\* ... and that calls no consumer
SvcStep == SvcFrame /\ UNCHANGED handled

(***************************************************************************)
(* listen_events                                                           *)
(***************************************************************************)
InitSvc == InitService(NotObserved)

\* the same, and what the consumers handle without error is kept
InitHandled == InitService({})

\* the signatures handled without error, with one more
HandledWith(sig, ok) ==
    IF handled # NotObserved /\ ok THEN handled \cup {sig} ELSE handled

LiveReturns(r) ==
    /\ live_pc' = "returned"
    /\ live_ret' = r

\* pubsub_client is None: "Listen events job disabled"
LiveDisabled ==
    /\ live_pc = "subscribe"
    /\ ~config.pubsub_client
    /\ LiveReturns([kind |-> "Ok"])
    /\ UNCHANGED <<live_sig, live_error, delivered, event_calls>>
    /\ UNCHANGED <<registry, run_ret, resync_vars>>
    /\ SvcStep

\* logs_subscribe(..).await ... ?
LiveSubscribe ==
    /\ live_pc = "subscribe"
    /\ config.pubsub_client
    /\ \E subscribed \in BOOLEAN :
          IF subscribed
          THEN live_pc' = "listening" /\ UNCHANGED live_ret
          ELSE LiveReturns(RetErr([kind |-> "WebsocketError"]))
    /\ UNCHANGED <<live_sig, live_error, delivered, event_calls>>
    /\ UNCHANGED <<registry, run_ret, resync_vars>>
    /\ SvcStep

\* a Live Task that returns Ok when the stream ends
LiveStreamEndReturns ==
    /\ live_pc = "listening"
    /\ LiveReturns([kind |-> "Ok"])
    /\ UNCHANGED <<live_sig, live_error, delivered, event_calls>>
    /\ UNCHANGED <<registry, run_ret, resync_vars>>
    /\ SvcStep

\* stream.next().await is None: "stream empty, resubscribe"
LiveStreamEnd ==
    /\ live_pc = "listening"
    /\ live_pc' = "subscribe"
    /\ UNCHANGED <<live_sig, live_error, live_ret, delivered, event_calls>>
    /\ UNCHANGED <<registry, run_ret, resync_vars>>
    /\ SvcStep

\* a lookup that finds no signature registered
is_transaction_registered_never(sig, registered) == FALSE

\* local_storage.is_transaction_registered(&self.program_id, &tx_signature)
is_transaction_registered(sig, registered) == sig \in registered

\* stream.next().await is a message: the signature is parsed and looked up in
\* the registry
LiveReceive ==
    /\ live_pc = "listening"
    /\ BagCardinality(delivered) < MaxMessages
    /\ \E text \in Signatures \cup {"unparsable"}, read \in BOOLEAN :
          /\ delivered' = delivered (+) SetToBag({text})
          /\ IF text = "unparsable" \/ (read /\ is_transaction_registered(text, registry))
             THEN UNCHANGED <<live_pc, live_ret, live_sig>>
             ELSE IF ~read
             THEN /\ LiveReturns(RetErr([kind |-> "StorageError"]))
                  /\ UNCHANGED live_sig
             ELSE /\ live_pc' = "event"
                  /\ live_sig' = text
                  /\ UNCHANGED live_ret
    /\ UNCHANGED <<live_error, event_calls>>
    /\ UNCHANGED <<registry, run_ret, resync_vars>>
    /\ SvcStep

\* (self.event_consumer)(subscription_response.value.logs)
LiveEvent ==
    /\ live_pc = "event"
    /\ event_calls' = Called(event_calls, live_sig)
    /\ \E answer \in {"ConsumeSuccess", "TransactionNeeed", "Err"} :
          /\ live_pc' = CASE answer = "ConsumeSuccess" -> "register"
                          [] answer = "TransactionNeeed" -> "fetch"
                          [] OTHER -> "listening"
          /\ live_sig' = IF answer = "Err" THEN "None" ELSE live_sig
          /\ handled' = HandledWith(live_sig, answer = "ConsumeSuccess")
    /\ UNCHANGED <<live_error, live_ret, delivered>>
    /\ UNCHANGED <<registry, run_ret, resync_vars>>
    /\ SvcFrame

\* unwrap_or_continue!(self.get_transaction_by_signature(tx_signature).await, ..)
LiveFetch ==
    /\ live_pc = "fetch"
    /\ \E fetched \in BOOLEAN :
          /\ live_pc' = IF fetched THEN "consume" ELSE "listening"
          /\ live_sig' = IF fetched THEN live_sig ELSE "None"
    /\ UNCHANGED <<live_error, live_ret, delivered, event_calls>>
    /\ UNCHANGED <<registry, run_ret, resync_vars>>
    /\ SvcStep

\* (self.transaction_consumer)(..).await: Ok, Err (logged), or a panic
LiveConsume ==
    /\ live_pc = "consume"
    /\ \E answer \in {"Ok", "Err", "panic"} :
          IF answer = "panic"
          THEN /\ LiveReturns(RetErr([kind |-> "TokioJoinError"]))
               /\ UNCHANGED <<live_error, handled>>
          ELSE /\ live_pc' = "register"
               /\ live_error' = (answer = "Err")
               /\ handled' = HandledWith(live_sig, answer = "Ok")
               /\ UNCHANGED live_ret
    /\ UNCHANGED <<live_sig, delivered, event_calls>>
    /\ UNCHANGED <<registry, run_ret, resync_vars>>
    /\ SvcFrame

\* self.local_storage.register_transaction(&self.program_id, &tx_signature)?
LiveRegister ==
    /\ live_pc = "register"
    /\ \E stored \in BOOLEAN :
          IF stored
          THEN /\ registry' = registry \cup {live_sig}
               /\ live_pc' = "listening"
               /\ live_sig' = "None"
               /\ live_error' = FALSE
               /\ UNCHANGED live_ret
          ELSE /\ LiveReturns(RetErr([kind |-> "StorageError"]))
               /\ UNCHANGED <<registry, live_sig, live_error>>
    /\ UNCHANGED <<delivered, event_calls>>
    /\ UNCHANGED <<run_ret, resync_vars>>
    /\ SvcStep

(***************************************************************************)
(* resync_events                                                           *)
(***************************************************************************)
ResyncReturns(r) ==
    /\ rs_pc' = "returned"
    /\ rs_ret' = r

\* is_resync_enabled is false
ResyncDisabled ==
    /\ rs_pc = "sleep"
    /\ ~config.is_resync_enabled
    /\ ResyncReturns([kind |-> "Ok"])
    /\ UNCHANGED <<tick, resync_last_slot, batch, last_transaction, chunks, written,
                   cursor, rollback, published>>
    /\ UNCHANGED <<registry, run_ret, live_vars>>
    /\ SvcStep

\* the head of the 'resync loop: sleep, get_unregistered_program_transactions,
\* and the chunk tasks spawned for what it returned
ResyncTick ==
    /\ rs_pc = "sleep"
    /\ config.is_resync_enabled
    /\ tick < MaxTicks
    /\ tick' = tick + 1
    /\ written' = NotWritten
    /\ \E answer \in {"Err", "Ok"} :
          LET all_signatures == SignaturesSince(cursor)
              signatures ==
                  filter_unregistered(
                      success_signatures(all_signatures, config.failed_on_chain,
                                         config.resync_order),
                      registry)
              size == IF config.resync_signatures_chunk_size = <<>>
                      THEN Len(signatures)
                      ELSE config.resync_signatures_chunk_size[1]
          IN IF answer = "Err"
             \* unwrap_or_continue!: the slot, the cursor, the signatures or the
             \* registry could not be read
             THEN /\ batch' = <<>>
                  /\ last_transaction' = "None"
                  /\ chunks' = <<>>
                  /\ UNCHANGED <<rs_pc, resync_last_slot, rs_ret>>
             ELSE /\ batch' = <<all_signatures>>
                  /\ resync_last_slot' = tick'
                  /\ last_transaction' = first_signature(all_signatures)
                  /\ IF signatures = <<>>
                     THEN rs_pc' = "empty_publish" /\ chunks' = <<>> /\ UNCHANGED rs_ret
                     ELSE IF chunks_panics(size)
                     \* the panic ends the task of resync_events: flatten turns
                     \* the JoinError into the error of the task
                     THEN /\ chunks' = <<>>
                          /\ ResyncReturns(RetErr([kind |-> "TokioJoinError"]))
                     ELSE /\ rs_pc' = "running"
                          /\ chunks' = [c \in DOMAIN slice_chunks(signatures, size) |->
                                           ChunkTask(slice_chunks(signatures, size)[c])]
                          /\ UNCHANGED rs_ret
    /\ UNCHANGED <<cursor, rollback, published>>
    /\ UNCHANGED <<registry, run_ret, live_vars>>
    /\ SvcStep

ChunkStep ==
    /\ UNCHANGED <<rs_pc, tick, resync_last_slot, batch, last_transaction, written, rs_ret,
                   cursor, rollback, published>>
    /\ UNCHANGED <<run_ret, live_vars>>
    /\ SvcFrame

\* a chunk task: self_clone.get_transaction_by_signature(tx_signature).await
ChunkFetch(c) ==
    /\ chunks[c].at = "fetch"
    /\ \E fetched \in BOOLEAN :
          chunks' = [chunks EXCEPT ![c] =
                        IF fetched THEN [@ EXCEPT !.at = "consume"]
                        ELSE NextSignature([@ EXCEPT !.ok = FALSE])]
    /\ UNCHANGED <<registry, handled>>
    /\ ChunkStep

\* a chunk task: (self_clone.transaction_consumer)(..).await
ChunkConsume(c) ==
    /\ chunks[c].at = "consume"
    /\ \E answer \in {"Ok", "Err", "panic"} :
          /\ chunks' = [chunks EXCEPT ![c] =
                           IF answer = "panic"
                           THEN [@ EXCEPT !.at = "done", !.result = "panic"]
                           ELSE [@ EXCEPT !.at = "register", !.ok = @ /\ answer = "Ok"]]
          /\ handled' = HandledWith(chunks[c].sigs[1], answer = "Ok")
    /\ UNCHANGED registry
    /\ ChunkStep

\* a chunk task: self_clone.local_storage.register_transaction(..)?
ChunkRegister(c) ==
    /\ chunks[c].at = "register"
    /\ \E stored \in BOOLEAN :
          IF stored
          THEN /\ registry' = registry \cup {chunks[c].sigs[1]}
               /\ chunks' = [chunks EXCEPT ![c] = NextSignature(@)]
          ELSE /\ chunks' = [chunks EXCEPT ![c] = [@ EXCEPT !.at = "done", !.result = "err"]]
               /\ UNCHANGED registry
    /\ UNCHANGED handled
    /\ ChunkStep

\* tasks_success that no outcome of a chunk task turns false
task_success_always(outcome) == TRUE

\* tasks_success that only a panic of a chunk task turns false
task_success_unless_err(outcome) == outcome # "panic"

\* tasks_success &= match task { Ok(Ok(true)) => true, Ok(Ok(false)) => { ..; true }, .. }
task_success(outcome) == outcome \in {"true", "false"}

\* the completion stream is through: tasks_success, and last_transaction.take()
\* for every chunk that returned false
ResyncJoin ==
    /\ rs_pc = "running"
    /\ \A c \in DOMAIN chunks : chunks[c].at = "done"
    /\ last_transaction' = IF \E c \in DOMAIN chunks : chunks[c].result = "false"
                           THEN "None" ELSE last_transaction
    /\ rs_pc' = IF \A c \in DOMAIN chunks : task_success(chunks[c].result)
                THEN "commit" ELSE "sleep"
    /\ UNCHANGED <<tick, resync_last_slot, batch, chunks, written, rs_ret, cursor, rollback,
                   published>>
    /\ UNCHANGED <<registry, run_ret, live_vars>>
    /\ SvcStep

\* the candidate first, the cell only when there is no candidate
candidate_or(cell, candidate) == IF candidate # "None" THEN candidate ELSE cell

\* the cell only when there is a candidate
taken_with_candidate(cell, candidate) ==
    IF candidate = "None" THEN "None" ELSE IF cell # "None" THEN cell ELSE candidate

\* resync_rollback.write().ok().and_then(|w| w.take()).or(last_transaction)
taken_or(cell, candidate) == IF cell # "None" THEN cell ELSE candidate

\* set_last_resynced_transaction: the rollback cell is taken; its value, or else
\* last_transaction, is written to the storage if there is one
SetLastResynced(then) ==
    LET value == taken_or(rollback, last_transaction)
    IN /\ rollback' = "None"
       /\ IF value = "None"
          THEN rs_pc' = then /\ UNCHANGED <<cursor, written, rs_ret>>
          ELSE \E stored \in BOOLEAN :
                  IF stored
                  THEN /\ cursor' = value
                       /\ written' = [value |-> value, rollback |-> rollback # "None"]
                       /\ rs_pc' = then
                       /\ UNCHANGED rs_ret
                  ELSE /\ ResyncReturns(RetErr([kind |-> "StorageError"]))
                       /\ UNCHANGED <<cursor, written>>

\* (self.resync_ptr_setter)(resync_last_slot).await?
PtrSetter(then) ==
    \E set \in BOOLEAN :
        IF set
        THEN /\ published' = Append(published, resync_last_slot)
             /\ rs_pc' = then
             /\ UNCHANGED rs_ret
        ELSE /\ ResyncReturns(RetErr([kind |-> "PtrSetterError"]))
             /\ UNCHANGED published

CommitStep ==
    /\ UNCHANGED <<tick, resync_last_slot, batch, last_transaction, chunks>>
    /\ UNCHANGED <<registry, run_ret, live_vars>>
    /\ SvcStep

\* a completion that goes on to resync_ptr_setter and leaves the cursor alone
CommitSkipped ==
    /\ rs_pc = "commit"
    /\ rs_pc' = "publish"
    /\ UNCHANGED <<cursor, rollback, written, rs_ret, published>>
    /\ CommitStep

\* all chunk tasks went through: self.set_last_resynced_transaction(last_transaction)?
ResyncCommit ==
    /\ rs_pc = "commit"
    /\ SetLastResynced("publish")
    /\ UNCHANGED published
    /\ CommitStep

\* ... then (self.resync_ptr_setter)(resync_last_slot).await?
ResyncPublish ==
    /\ rs_pc = "publish"
    /\ PtrSetter("sleep")
    /\ UNCHANGED <<cursor, rollback, written>>
    /\ CommitStep

\* an empty tick that goes on to the cursor without calling resync_ptr_setter
EmptyPublishSkipped ==
    /\ rs_pc = "empty_publish"
    /\ rs_pc' = "empty_commit"
    /\ UNCHANGED <<cursor, rollback, written, rs_ret, published>>
    /\ CommitStep

\* Err(EmptyError): (self.resync_ptr_setter)(resync_last_slot).await?
ResyncEmptyPublish ==
    /\ rs_pc = "empty_publish"
    /\ PtrSetter("empty_commit")
    /\ UNCHANGED <<cursor, rollback, written>>
    /\ CommitStep

\* ... then self.set_last_resynced_transaction(last_transaction)?
ResyncEmptyCommit ==
    /\ rs_pc = "empty_commit"
    /\ SetLastResynced("sleep")
    /\ UNCHANGED published
    /\ CommitStep

\* an operator writes the rollback cell
OperatorRollback ==
    /\ rollback = "None"
    /\ rs_pc \in {"running", "commit", "empty_publish", "empty_commit"}
    /\ \E to \in Signatures : rollback' = to
    /\ UNCHANGED <<rs_pc, tick, resync_last_slot, batch, last_transaction, chunks, written,
                   rs_ret, cursor, published>>
    /\ UNCHANGED <<registry, run_ret, live_vars>>
    /\ SvcStep

(***************************************************************************)
(* run: try_join!(flatten(listen_event), flatten(resync_events)).  A task  *)
(* whose JoinHandle is dropped is detached: nothing stops it.              *)
(***************************************************************************)
\* a run that returns Ok as soon as one task has returned Ok
RunReturnsOnFirstOk ==
    /\ run_ret = NoRet
    /\ \/ live_ret.kind = "Err" /\ run_ret' = live_ret
       \/ rs_ret.kind = "Err" /\ run_ret' = rs_ret
       \/ (live_ret.kind = "Ok" \/ rs_ret.kind = "Ok") /\ run_ret' = [kind |-> "Ok"]
    /\ UNCHANGED <<registry, live_vars, resync_vars>>
    /\ SvcStep

RunReturns ==
    /\ run_ret = NoRet
    /\ \/ live_ret.kind = "Err" /\ run_ret' = live_ret
       \/ rs_ret.kind = "Err" /\ run_ret' = rs_ret
       \/ live_ret.kind = "Ok" /\ rs_ret.kind = "Ok" /\ run_ret' = [kind |-> "Ok"]
    /\ UNCHANGED <<registry, live_vars, resync_vars>>
    /\ SvcStep

NextSvc ==
    \/ LiveDisabled
    \/ LiveSubscribe
    \/ LiveStreamEnd
    \/ LiveReceive
    \/ LiveEvent
    \/ LiveFetch
    \/ LiveConsume
    \/ LiveRegister
    \/ ResyncDisabled
    \/ ResyncTick
    \/ \E c \in DOMAIN chunks : ChunkFetch(c)
    \/ \E c \in DOMAIN chunks : ChunkConsume(c)
    \/ \E c \in DOMAIN chunks : ChunkRegister(c)
    \/ ResyncJoin
    \/ ResyncCommit
    \/ ResyncPublish
    \/ ResyncEmptyPublish
    \/ ResyncEmptyCommit
    \/ OperatorRollback
    \/ RunReturns

SpecSvc == InitSvc /\ [][NextSvc]_vars

SpecHandled == InitHandled /\ [][NextSvc]_vars

(***************************************************************************)
(* Properties of the service, checked under SpecSvc.                       *)
(***************************************************************************)
\* a pass of the 'resync loop that got its batch is over and the loop goes on
TickOver == rs_pc = "sleep" /\ tick >= 1 /\ batch # <<>>

\* the candidate of the tick: the newest signature of the batch
Candidate == IF batch = <<>> THEN "None" ELSE first_signature(batch[1])

\* set_last_resynced_transaction wrote the candidate of the tick
Advanced == written # NotWritten /\ ~written.rollback /\ written.value = Candidate

\* every chunk task the tick spawned returned Ok(true)
AllChunksTrue == \A c \in DOMAIN chunks : chunks[c].result = "true"

\* C16 as stated: in every resync tick the cursor is advanced (the candidate
\* of the tick is written) if and only if every spawned chunk task returned
\* success and the batch of the tick held a candidate.
C16_Original ==
    TickOver => (Advanced <=> (AllChunksTrue /\ Candidate # "None"))

\* C16: in every resync tick that got its batch and after which the loop goes
\* on, the candidate of the tick was written only if every spawned chunk task
\* returned Ok(true) and the batch held a candidate; when every chunk task
\* returned Ok(true) and the batch held a candidate, the cursor was written,
\* with the value of the rollback cell if an operator had set it and with the
\* candidate otherwise; and the value of the rollback cell was written only if
\* no chunk task returned an error or panicked.
C16_CursorAdvance ==
    TickOver =>
        /\ Advanced => (AllChunksTrue /\ Candidate # "None")
        /\ (AllChunksTrue /\ Candidate # "None") => written # NotWritten
        /\ written.rollback =>
              \A c \in DOMAIN chunks : chunks[c].result \in {"true", "false"}

\* a tick with chunk tasks wrote its candidate
C16_Witness == TickOver /\ Advanced /\ chunks # <<>>

\* a tick whose chunk tasks all returned Ok(true) wrote the rollback value
C16_Rollback == TickOver /\ AllChunksTrue /\ chunks # <<>> /\ written.rollback

\* set_last_resynced_transaction is called with Some(s)
CommitsSome == rs_pc \in {"commit", "empty_commit"} /\ last_transaction # "None"
               /\ rs_pc' # rs_pc

C22_Step ==
    CommitsSome =>
        /\ rollback' = "None"
        /\ \/ /\ cursor' = IF rollback # "None" THEN rollback ELSE last_transaction
              /\ rs_ret' = rs_ret
           \/ /\ cursor' = cursor
              /\ rs_ret' = RetErr([kind |-> "StorageError"])

\* C22: whenever set_last_resynced_transaction is called with Some(s), the
\* rollback cell is drained first; if it held r, r is handed to the storage
\* instead of s, and the cell is empty afterwards (a storage that refuses the
\* write ends the Resync Task with that error).
C22_RollbackOverrides == [][C22_Step]_vars

\* a commit with candidate s wrote the value r of the rollback cell
C22_Witness ==
    /\ rs_pc \in {"publish", "sleep"}
    /\ written.rollback
    /\ last_transaction \notin {"None", written.value}
    /\ cursor = written.value
    /\ rollback = "None"

\* C17 as stated: in a resync tick in which the fetch or the
\* transaction_consumer of some signature fails, which makes the chunk task
\* return Ok(false), the cursor is not written and resync_ptr_setter is not
\* called with the slot of the tick.
C17_Original ==
    (batch # <<>> /\ \E c \in DOMAIN chunks : chunks[c].result = "false") =>
        /\ written = NotWritten
        /\ \A i \in DOMAIN published : published[i] # resync_last_slot

\* listen_events stores the signature of the message at hand
LiveRegisters == live_pc = "register" /\ live_sig \notin registry
                 /\ registry' = registry \cup {live_sig}

\* C18 as stated: listen_events registers a signature only if no consumer
\* returned an error for its message.
C18_Original == [][LiveRegisters => ~live_error]_vars

\* the subscription delivers a message with signature sig
Delivers(sig) == CopiesIn(sig, delivered') > CopiesIn(sig, delivered)

\* C19 as stated: when the subscription delivers the same signature twice,
\* event_consumer is not called a second time for it.
C19_Original ==
    \A sig \in Signatures : CopiesIn(sig, delivered) >= 2 => event_calls[sig] <= 1

C19_Step ==
    \A sig \in Signatures :
        /\ (Delivers(sig) /\ sig \in registry) =>
              /\ live_pc' \notin {"event", "fetch", "consume", "register"}
              /\ UNCHANGED <<event_calls, registry>>
        /\ (sig \in registry /\ live_sig # sig) => event_calls'[sig] = event_calls[sig]

\* C19: a message whose signature is registered when listen_events looks it up
\* leads to no consumer call and no registry write; event_consumer is not
\* called for a registered signature unless listen_events had looked it up
\* before it was registered; and event_consumer is called at most once for
\* each delivery of a signature.
C19_LiveDedup ==
    /\ [][C19_Step]_vars
    /\ [](\A sig \in Signatures : event_calls[sig] <= CopiesIn(sig, delivered))

\* a signature was delivered twice, consumed once and registered
C19_Witness ==
    \E sig \in Signatures :
        /\ CopiesIn(sig, delivered) >= 2
        /\ event_calls[sig] = 1
        /\ sig \in registry
        /\ live_pc = "listening"

\* the tick has its batch and the completion loop has not yet run
TickStarted == rs_pc \in {"running", "empty_publish"} /\ batch # <<>>

\* C28: the candidate of a tick is the first element of the batch as the
\* signature query returned it, the newest first, whatever the order of the
\* resync, the errors recorded for the signatures and the registry.
C28_RawCandidate ==
    TickStarted =>
       /\ batch[1] = SignaturesSince(cursor)
       /\ last_transaction = IF batch[1] = <<>> THEN "None" ELSE batch[1][1]

\* a Historical tick whose candidate failed on chain and whose only chunk
\* starts with an older signature
C28_Witness ==
    /\ TickStarted
    /\ config.resync_order = "Historical"
    /\ last_transaction \in config.failed_on_chain
    /\ chunks # <<>>
    /\ chunks[1].sigs # <<>>
    /\ chunks[1].sigs[1] # last_transaction

\* the place of a signature in the chain, the oldest first
ChainIndex(sig) == CHOOSE i \in DOMAIN Chain : Chain[i] = sig

\* the signatures a chunk task has not yet gone through come in the order of
\* the resync
InResyncOrder(sigs) ==
    \A i, j \in DOMAIN sigs :
        i < j => IF config.resync_order = "Historical"
                 THEN ChainIndex(sigs[i]) < ChainIndex(sigs[j])
                 ELSE ChainIndex(sigs[i]) > ChainIndex(sigs[j])

\* chunk task c takes a step on the signature at hand: the stages follow one
\* another, and the next signature is the one that follows in the chunk
ChunkTakesStep(c) ==
    LET task == chunks[c]
        next == chunks'[c]
        onward == next.sigs = Tail(task.sigs) /\ next.at = "fetch" /\ next.sigs # <<>>
        through == next.sigs = <<>> /\ next.at = "done" /\ Len(task.sigs) = 1
                      /\ next.result \in {"true", "false"}
    IN CASE task.at = "fetch" ->
               \/ next.at = "consume" /\ next.sigs = task.sigs
               \/ onward
               \/ through
         [] task.at = "consume" ->
               \/ next.at = "register" /\ next.sigs = task.sigs
               \/ next.at = "done" /\ next.result = "panic"
         [] task.at = "register" ->
               \/ registry' = registry \cup {task.sigs[1]} /\ (onward \/ through)
               \/ next.at = "done" /\ next.result = "err" /\ registry' = registry
         [] OTHER -> FALSE

\* the chunk tasks of the tick run
ChunksRun == rs_pc = "running" /\ rs_pc' = "running" /\ DOMAIN chunks' = DOMAIN chunks

\* C29 as stated: the signatures of a chunk are processed one after the other
\* in the order of the resync, and an error on one signature does not stop the
\* processing of the later ones: a chunk task ends with no signature left
\* behind the one at hand, unless it panics.
C29_Original ==
    [][ChunksRun =>
          \A c \in DOMAIN chunks :
              /\ InResyncOrder(chunks[c].sigs)
              /\ chunks'[c] # chunks[c] =>
                    /\ ChunkTakesStep(c)
                    /\ chunks'[c].at = "done" =>
                          \/ Len(chunks'[c].sigs) <= 1
                          \/ chunks'[c].result = "panic"]_vars

\* C29: the signatures of a chunk are processed one after the other (fetch,
\* transaction_consumer, register_transaction) in the order of the resync, the
\* newest first for Newest and the oldest first for Historical; a failed fetch
\* or an Err of transaction_consumer does not stop the later signatures, and a
\* chunk task leaves signatures unprocessed only when register_transaction
\* fails or transaction_consumer panics.
C29_ChunkOrder ==
    [][ChunksRun =>
          \A c \in DOMAIN chunks :
              /\ InResyncOrder(chunks[c].sigs)
              /\ chunks'[c] # chunks[c] =>
                    /\ ChunkTakesStep(c)
                    /\ chunks'[c].at = "done" =>
                          \/ chunks'[c].sigs = <<>>
                          \/ chunks'[c].result \in {"err", "panic"}
                    /\ (chunks'[c].ok # chunks[c].ok /\ Len(chunks[c].sigs) > 1) =>
                          /\ chunks'[c].at \in {"fetch", "register"}
                          /\ chunks'[c].result = "running"]_vars

\* a Historical chunk of two signatures went through the older one, whose
\* fetch failed or whose transaction_consumer returned Err, and is at the newer
C29_Witness ==
    /\ rs_pc = "running"
    /\ config.resync_order = "Historical"
    /\ \E c \in DOMAIN chunks :
          /\ chunks[c].sigs = <<Chain[Len(Chain)]>>
          /\ chunks[c].at = "consume"
          /\ ~chunks[c].ok
          /\ Chain[1] \notin config.failed_on_chain

\* the tick got a batch in which every signature failed on chain or is registered
NothingToResync ==
    /\ tick' = tick + 1
    /\ batch' # <<>>
    /\ \A i \in DOMAIN batch'[1] :
          batch'[1][i] \in config.failed_on_chain \cup registry

\* the slot of the tick is published
SlotPublished == published # <<>> /\ published[Len(published)] = tick

Publishes == published' # published

\* C27: resync_ptr_setter is called with the slot that the tick read at its
\* start, at most once in a tick, and, in a tick whose chunk tasks all
\* returned Ok(true), only after set_last_resynced_transaction wrote the cursor.
C27_CommitBeforePublish ==
    [][/\ Publishes =>
             /\ published' = Append(published, resync_last_slot)
             /\ resync_last_slot = tick
             /\ \A i \in DOMAIN published : published[i] < tick
             /\ (chunks # <<>> /\ AllChunksTrue) =>
                   /\ written # NotWritten
                   /\ cursor = written.value
                   /\ ~written.rollback => written.value = last_transaction
       /\ (chunks # <<>> /\ written' # written /\ written' # NotWritten) =>
             \A i \in DOMAIN published : published[i] < tick]_vars

\* the second tick had chunk tasks that all returned Ok(true), wrote its
\* candidate and published its slot after the slot of the first tick
C27_Witness ==
    /\ rs_pc = "sleep"
    /\ tick = 2
    /\ chunks # <<>>
    /\ AllChunksTrue
    /\ Advanced
    /\ published = <<1, 2>>

\* the Live Task handles a message and meets an error other than a panic
LiveHandlingError ==
    \/ LiveReceive /\ live_pc' = "returned"
    \/ LiveReceive /\ \E text \in DOMAIN delivered' :
          /\ text \notin Signatures
          /\ CopiesIn(text, delivered') > CopiesIn(text, delivered)
    \/ LiveEvent /\ live_pc' = "listening"
    \/ LiveFetch /\ live_pc' = "listening"
    \/ LiveConsume /\ live_error'
    \/ LiveRegister /\ live_pc' = "returned"

\* C26 as stated: an error met while handling one subscription message
\* (signature parse, registry read or write, event_consumer, fetch,
\* transaction_consumer) is skipped and the Live Task goes on with the next
\* message; listen_events ends with an error only when the subscription
\* cannot be opened.
C26_Original ==
    [][/\ LiveHandlingError => live_pc' \in {"listening", "register"}
       /\ (live_pc' = "returned" /\ live_pc # "returned" /\ live_ret'.kind = "Err") =>
             (LiveSubscribe \/ (LiveConsume /\ ~live_error'))]_vars

\* the same for the errors that are not of the registry
C26_OtherErrors ==
    [][(LiveHandlingError /\ ~(live_ret'.kind = "Err")) =>
          live_pc' \in {"listening", "register"}]_vars

\* a chunk task of the tick returned Err or panicked
SomeChunkFailed == \E c \in DOMAIN chunks : chunks[c].result \in {"err", "panic"}

\* C31: when a chunk task of a tick returns an error or panics, that tick
\* writes no cursor and does not call resync_ptr_setter, whatever the other
\* chunk tasks returned and in whatever order, and the completion loop is
\* followed by the next pass of the resync loop.
C31_FailedChunkHolds ==
    [][SomeChunkFailed =>
          /\ rs_pc \in {"running", "sleep"}
          /\ written = NotWritten
          /\ cursor' = cursor
          /\ published' = published
          /\ (rs_pc = "running" /\ rs_pc' # "running") =>
                rs_pc' = "sleep" /\ rs_ret' = rs_ret]_vars

\* a tick of two chunk tasks is over: one returned Ok(true), the other an
\* error, and nothing was written or published
C31_Witness ==
    /\ TickOver
    /\ Len(chunks) = 2
    /\ \E c, d \in DOMAIN chunks :
          chunks[c].result = "true" /\ chunks[d].result \in {"err", "panic"}
    /\ written = NotWritten
    /\ published = <<>>

\* C32: when the stream of the subscription ends the Live Task subscribes
\* again and does not return; it returns only from a subscribe that fails,
\* the first or a later one, with WebsocketError, and run returns that error
\* (unless the Resync Task failed too).
C32_Reconnects ==
    [][/\ (live_pc = "listening" /\ live_pc' \notin {"listening", "event"}) =>
             \/ live_pc' = "subscribe" /\ live_ret' = NoRet
             \/ live_pc' = "returned" /\ live_ret'.kind = "Err"
                   /\ live_ret'.err.kind = "StorageError"
       /\ (live_pc = "subscribe" /\ live_pc' # "subscribe" /\ config.pubsub_client) =>
             \/ live_pc' = "listening" /\ live_ret' = NoRet
             \/ live_pc' = "returned"
                   /\ live_ret' = RetErr([kind |-> "WebsocketError"])
       /\ (config.pubsub_client /\ live_pc' = "returned") => live_ret'.kind = "Err"
       /\ (run_ret' # run_ret /\ live_ret.kind = "Err" /\ rs_ret.kind # "Err") =>
             run_ret' = live_ret]_vars

\* a message was delivered, the stream ended, the next subscribe failed and
\* run returned WebsocketError
C32_Witness ==
    /\ delivered # EmptyBag
    /\ live_pc = "returned"
    /\ live_ret = RetErr([kind |-> "WebsocketError"])
    /\ run_ret = live_ret

\* C33: run returns Ok only when listen_events and resync_events have both
\* returned Ok, which each does only when it is disabled; a task that returned
\* Ok at once leaves run waiting for the other task, which goes on.
C33_RunOk ==
    [][/\ run_ret'.kind = "Ok" =>
             /\ live_ret'.kind = "Ok" /\ rs_ret'.kind = "Ok"
             /\ ~config.pubsub_client /\ ~config.is_resync_enabled
       /\ live_ret'.kind = "Ok" => ~config.pubsub_client
       /\ rs_ret'.kind = "Ok" => ~config.is_resync_enabled
       /\ (run_ret' # run_ret /\ run_ret'.kind = "Err") =>
             run_ret' \in {live_ret, rs_ret}
       /\ (live_ret.kind = "Ok" /\ rs_ret = NoRet) =>
             /\ run_ret' = NoRet
             /\ (rs_pc = "sleep" /\ tick < MaxTicks) =>
                   ENABLED (ResyncTick \/ ResyncDisabled)
       /\ (rs_ret.kind = "Ok" /\ live_ret = NoRet) =>
             /\ run_ret' = NoRet
             /\ live_pc = "subscribe" => ENABLED (LiveSubscribe \/ LiveDisabled)]_vars

\* both tasks are disabled and run returned Ok
C33_Witness ==
    /\ run_ret.kind = "Ok"
    /\ live_ret.kind = "Ok"
    /\ rs_ret.kind = "Ok"

\* the Live Task is disabled and returned, and the Resync Task is in its
\* second tick with a signature registered
C33_OtherGoesOn ==
    /\ live_ret.kind = "Ok"
    /\ run_ret = NoRet
    /\ tick = 2
    /\ registry # {}

\* C34 as stated: when a tick has written its candidate to the cursor, every
\* signature of the batch of the tick that did not fail on chain has been
\* handled without error by a consumer at least once.
C34_Original ==
    Advanced =>
       \A i \in DOMAIN batch[1] :
           batch[1][i] \notin config.failed_on_chain => batch[1][i] \in handled

\* C35 as stated: no task calls event_consumer or transaction_consumer for a
\* signature that is registered.
C35_Original ==
    [][/\ (live_pc \in {"event", "consume"} /\ live_pc' # live_pc) =>
             live_sig \notin registry
       /\ \A c \in DOMAIN chunks :
             (chunks[c].at = "consume" /\ DOMAIN chunks' = DOMAIN chunks
                 /\ chunks'[c] # chunks[c]) =>
                chunks[c].sigs[1] \notin registry]_vars

\* set_last_resynced_transaction(None) is called and returns
CommitsNone ==
    /\ rs_pc \in {"commit", "empty_commit"}
    /\ rs_pc' # rs_pc
    /\ last_transaction = "None"

\* C37 as stated: a call of set_last_resynced_transaction with None leaves the
\* rollback cell and the stored cursor as they are.
C37_Original == [][CommitsNone => rollback' = rollback /\ cursor' = cursor]_vars

\* C37: a call of set_last_resynced_transaction with None drains the rollback
\* cell all the same; a value of the cell is written to the cursor, and the
\* cursor is left as it is only when the cell was empty or the write failed.
C37_DrainedWithoutCandidate ==
    [][CommitsNone =>
          /\ rollback' = "None"
          /\ IF rollback = "None"
             THEN cursor' = cursor /\ written' = written /\ rs_pc' # "returned"
             ELSE \/ /\ cursor' = rollback
                     /\ written' = [value |-> rollback, rollback |-> TRUE]
                     /\ rs_pc' # "returned"
                  \/ /\ cursor' = cursor
                     /\ rs_pc' = "returned"
                     /\ rs_ret' = RetErr([kind |-> "StorageError"])]_vars

\* a chunk returned Ok(false), so that the tick had no candidate left, and the
\* value of the rollback cell was written to the cursor
C37_Witness ==
    /\ rs_pc \in {"publish", "sleep"}
    /\ \E c \in DOMAIN chunks : chunks[c].result = "false"
    /\ last_transaction = "None"
    /\ written # NotWritten
    /\ written.rollback
    /\ cursor = written.value
    /\ rollback = "None"

\* the sequences of a sequence, one behind the other
RECURSIVE Concatenated(_)
Concatenated(seqs) ==
    IF seqs = <<>> THEN <<>> ELSE Head(seqs) \o Concatenated(Tail(seqs))

\* the filtered list of the tick that starts in this step
FilteredList ==
    filter_unregistered(
        success_signatures(batch'[1], config.failed_on_chain, config.resync_order),
        registry)

\* the head of the 'resync loop got a filtered list that is not empty
TickWithSignatures ==
    /\ rs_pc = "sleep"
    /\ tick' = tick + 1
    /\ batch' # <<>>
    /\ FilteredList # <<>>

\* C40 as stated: the chunk tasks spawned in a tick partition the filtered
\* list: in the order of their index they add up to the list, none is empty
\* and none is longer than resync_signatures_chunk_size (the whole list in one
\* chunk for None), for every chunk size, 0 included.
C40_Original ==
    [][TickWithSignatures =>
          /\ rs_pc' = "running"
          /\ Concatenated([c \in DOMAIN chunks' |-> chunks'[c].sigs]) = FilteredList
          /\ \A c \in DOMAIN chunks' :
                /\ chunks'[c].sigs # <<>>
                /\ chunks'[c] = ChunkTask(chunks'[c].sigs)
                /\ IF config.resync_signatures_chunk_size = <<>>
                   THEN chunks'[c].sigs = FilteredList
                   ELSE Len(chunks'[c].sigs) <= config.resync_signatures_chunk_size[1]]_vars

\* for None and for the sizes that are not zero the chunk tasks of a tick
\* partition the filtered list
C40_NonZeroSizes ==
    [][(TickWithSignatures /\ config.resync_signatures_chunk_size # <<0>>) =>
          /\ rs_pc' = "running"
          /\ Concatenated([c \in DOMAIN chunks' |-> chunks'[c].sigs]) = FilteredList
          /\ \A c \in DOMAIN chunks' :
                /\ chunks'[c].sigs # <<>>
                /\ IF config.resync_signatures_chunk_size = <<>>
                   THEN chunks'[c].sigs = FilteredList
                   ELSE Len(chunks'[c].sigs) <= config.resync_signatures_chunk_size[1]]_vars

\* a step in which a consumer is called, the registry or the cursor written
Works ==
    \/ live_pc \in {"event", "consume"} /\ live_pc' # live_pc
    \/ \E c \in DOMAIN chunks : chunks[c].at = "consume" /\ chunks'[c] # chunks[c]
    \/ registry' # registry
    \/ cursor' # cursor

\* C20 as stated: once run has returned the failure of one task, the other
\* task calls no consumer and writes neither the registry nor the cursor.
C20_Original == [][run_ret.kind = "Err" => ~Works]_vars

(***************************************************************************)
(* get_transaction_by_signature: the retry loop around                     *)
(* bind_transaction_instructions_logs.  attempts_count is a usize; the     *)
(* model gives it UsizeBits bits, and every value of that width is a       *)
(* configured attempts_count.                                              *)
(***************************************************************************)
UsizeBits == 3

UsizeMax == 2 ^ UsizeBits - 1

\* what bind_transaction_instructions_logs can fail with
FetchErrors == {"ClientError", "EmptyLogsInTransaction"}

\* neither the parser nor the binder nor the service runs
ProgramOff ==
    /\ input = <<>>
    /\ index = 0
    /\ programs_stack = <<>>
    /\ call_index_map = [p \in Pubkeys |-> 0]
    /\ result = EmptyMap
    /\ invoked = <<>>
    /\ pc = "off"
    /\ ret = NoRet
    /\ tx = NoTx
    /\ ix_pc = "off"
    /\ ix_index = 0
    /\ invoke_index = 0
    /\ ix_call_index_map = [p \in Pubkeys |-> 0]
    /\ instructions = EmptyMap
    /\ bound = <<>>
    /\ ix_ret = NoRet
    /\ JoinOff
    /\ SvcOff

\* let TransactionRequestParams { mut attempts_count, .. } = ..
InitFetch ==
    /\ \E n \in 0..UsizeMax :
          fetch = [pc |-> "call", configured |-> n, attempts_count |-> n, calls |-> 0,
                   sleeps |-> 0, last_error |-> "None", ret |-> NoRet]
    /\ ProgramOff
    /\ db = {}
    /\ db_call = [op |-> "none"]
    /\ db_pending = {}
    /\ assets = [pc |-> "off"]
    /\ dispatch = [pc |-> "off"]

\* attempts_count -= 1: below zero the subtraction panics when the build checks
\* overflow and wraps around when it does not
decrement(n) ==
    IF n = 0
    THEN {[panic |-> TRUE, left |-> 0], [panic |-> FALSE, left |-> UsizeMax]}
    ELSE {[panic |-> FALSE, left |-> n - 1]}

\* one pass of the loop: the call of bind_transaction_instructions_logs and the
\* match on its result, up to the return or the sleep
FetchAttempt ==
    /\ fetch.pc = "call"
    /\ \/ fetch' = [fetch EXCEPT !.pc = "returned", !.calls = @ + 1,
                                 !.ret = [kind |-> "Ok"]]
       \/ \E err \in FetchErrors, d \in decrement(fetch.attempts_count) :
             fetch' =
                IF d.panic
                THEN [fetch EXCEPT !.pc = "panicked", !.calls = @ + 1,
                                   !.last_error = err]
                ELSE IF d.left = 0
                THEN [fetch EXCEPT !.pc = "returned", !.calls = @ + 1,
                                   !.attempts_count = d.left, !.last_error = err,
                                   !.ret = RetErr(err)]
                ELSE [fetch EXCEPT !.pc = "sleep", !.calls = @ + 1,
                                   !.attempts_count = d.left, !.last_error = err]
    /\ UNCHANGED <<log_vars, ix_vars, join_vars, svc_vars, db, db_call, db_pending, assets,
                   dispatch>>

\* tokio::time::sleep(attempt_timeout).await
FetchSleep ==
    /\ fetch.pc = "sleep"
    /\ fetch' = [fetch EXCEPT !.pc = "call", !.sleeps = @ + 1]
    /\ UNCHANGED <<log_vars, ix_vars, join_vars, svc_vars, db, db_call, db_pending, assets,
                   dispatch>>

NextFetch == FetchAttempt \/ FetchSleep

SpecFetch == InitFetch /\ [][NextFetch]_vars

\* C21 as stated: get_transaction_by_signature calls the RPC at most
\* attempts_count times, returns at the first success, sleeps between two
\* attempts and not after the last, and returns the error of the last attempt
\* when all attempts_count attempts failed.
C21_Original ==
    /\ fetch.pc # "panicked"
    /\ fetch.calls <= fetch.configured
    /\ fetch.pc = "returned" =>
          /\ fetch.sleeps = fetch.calls - 1
          /\ fetch.ret.kind = "Err" =>
                /\ fetch.calls = fetch.configured
                /\ fetch.ret.err = fetch.last_error

\* C39 as stated: for every attempts_count, 0 included, at most
\* max(1, attempts_count) RPC attempts are made on a fetch that keeps failing,
\* the error is returned then, and the counter neither goes below zero nor
\* wraps around.
C39_Original ==
    /\ fetch.pc # "panicked"
    /\ fetch.attempts_count <= fetch.configured
    /\ fetch.calls <= (IF fetch.configured = 0 THEN 1 ELSE fetch.configured)
    /\ (fetch.pc \in {"sleep", "call"} /\ fetch.last_error # "None")
          => fetch.calls < (IF fetch.configured = 0 THEN 1 ELSE fetch.configured)

(***************************************************************************)
(* storage.rs: RegisterTransaction and ResyncedTransactionsPtrStorage for  *)
(* the rocksdb DB.  A key is a sequence of bytes; the DB is a set of       *)
(* <<key, value>> pairs with one pair for a key.  The calls come from any  *)
(* number of threads: a call that reads and then writes is two steps.      *)
(***************************************************************************)
KEY_SUFFIX == <<"t", "x">>

LAST_RESYNCED_SUFFIX ==
    <<"_", "l", "a", "s", "t", "_", "r", "e", "s", "y", "n", "c", "e", "d">>

\* program_id.to_bytes(): arrays of one length, made of the bytes of the suffixes
DbPrograms == {<<"t", "x">>, <<"x", "t">>}

\* transaction_hash.as_ref(): arrays of one length
DbSignatures == {<<"t", "x", "t">>, <<"x", "_", "l">>}

\* a key without the program id
construct_key_of_signature(program_id, transaction_hash) ==
    KEY_SUFFIX \o transaction_hash

\* [KEY_SUFFIX, program_id.to_bytes(), transaction_hash.as_ref()].concat()
construct_key(program_id, transaction_hash) ==
    KEY_SUFFIX \o program_id \o transaction_hash

\* [&program_id.to_bytes()[..], LAST_RESYNCED_SUFFIX].concat()
last_resynced_key(program_id) == program_id \o LAST_RESYNCED_SUFFIX

\* self.get(key): <<>> is None, <<value>> is Some(value)
db_get(d, key) ==
    IF \E e \in d : e[1] = key
    THEN <<(CHOOSE e \in d : e[1] = key)[2]>>
    ELSE <<>>

\* self.put(key, value)
db_put(d, key, value) == {e \in d : e[1] # key} \cup {<<key, value>>}

\* is_transaction_registered
registered_in(d, program_id, transaction_hash) ==
    db_get(d, construct_key(program_id, transaction_hash)) # <<>>

\* get_last_resynced_transaction: the value is the bincode of the signature,
\* the bytes of the array
last_resynced_in(d, program_id) == db_get(d, last_resynced_key(program_id))

\* the other turn: every call that returns changes db_call
Turn == IF db_call.op = "none" THEN 0 ELSE 1 - db_call.turn

InitDb ==
    /\ db = {}
    /\ db_call = [op |-> "none"]
    /\ db_pending = {}
    /\ assets = [pc |-> "off"]
    /\ dispatch = [pc |-> "off"]
    /\ fetch = [pc |-> "off"]
    /\ ProgramOff

DbStep == UNCHANGED <<log_vars, ix_vars, join_vars, svc_vars, fetch, assets, dispatch>>

\* register_transaction: self.put(construct_key(..), [])?
DbRegister ==
    /\ \E program_id \in DbPrograms, transaction_hash \in DbSignatures, ok \in BOOLEAN :
          /\ db' = IF ok THEN db_put(db, construct_key(program_id, transaction_hash), <<>>)
                   ELSE db
          /\ db_call' = [op |-> "register_transaction", program_id |-> program_id,
                         transaction |-> transaction_hash, ok |-> ok,
                         known |-> registered_in(db, program_id, transaction_hash),
                         turn |-> Turn]
    /\ UNCHANGED db_pending
    /\ DbStep

\* set_last_resynced_transaction: self.put(.., bincode::serialize(&transaction)?)?
DbSetLast ==
    /\ \E program_id \in DbPrograms, transaction \in DbSignatures, ok \in BOOLEAN :
          /\ db' = IF ok THEN db_put(db, last_resynced_key(program_id), transaction)
                   ELSE db
          /\ db_call' = [op |-> "set_last_resynced_transaction",
                         program_id |-> program_id, transaction |-> transaction,
                         ok |-> ok, known |-> last_resynced_in(db, program_id) # <<>>,
                         turn |-> Turn]
    /\ UNCHANGED db_pending
    /\ DbStep

\* initialize_if_needed_resynced_transaction, the read:
\* self.get_last_resynced_transaction(program_id)?.is_none()
DbInitializeRead ==
    /\ \E program_id \in DbPrograms, transaction \in DbSignatures, ok \in BOOLEAN :
          LET call == [program_id |-> program_id, transaction |-> transaction]
          IN /\ call \notin db_pending
             /\ IF ok /\ last_resynced_in(db, program_id) = <<>>
                THEN /\ db_pending' = db_pending \cup {call}
                     /\ UNCHANGED db_call
                ELSE /\ db_call' = [op |-> "initialize_if_needed_resynced_transaction",
                                    program_id |-> program_id,
                                    transaction |-> transaction, ok |-> ok,
                                    known |-> ok, turn |-> Turn]
                     /\ UNCHANGED db_pending
    /\ UNCHANGED db
    /\ DbStep

\* initialize_if_needed_resynced_transaction, the write:
\* self.set_last_resynced_transaction(program_id, transaction)?
DbInitializeWrite ==
    /\ \E call \in db_pending, ok \in BOOLEAN :
          /\ db' = IF ok THEN db_put(db, last_resynced_key(call.program_id),
                                     call.transaction)
                   ELSE db
          /\ db_call' = [op |-> "initialize_if_needed_resynced_transaction",
                         program_id |-> call.program_id,
                         transaction |-> call.transaction, ok |-> ok,
                         known |-> last_resynced_in(db, call.program_id) # <<>>,
                         turn |-> Turn]
          /\ db_pending' = db_pending \ {call}
    /\ DbStep

NextDb == DbRegister \/ DbSetLast \/ DbInitializeRead \/ DbInitializeWrite

SpecDb == InitDb /\ [][NextDb]_vars

\* register_transaction(p, s) has returned Ok in this step
Registers(program_id, transaction_hash) ==
    /\ db_call' # db_call
    /\ db_call'.op = "register_transaction"
    /\ db_call'.ok
    /\ db_call'.program_id = program_id
    /\ db_call'.transaction = transaction_hash

C23_Step ==
    \A p \in DbPrograms, s \in DbSignatures :
        Registers(p, s) =>
            /\ registered_in(db', p, s)
            /\ registered_in(db, p, s) => db' = db
            /\ \A q \in DbPrograms, t \in DbSignatures :
                  <<q, t>> # <<p, s>> => registered_in(db', q, t) = registered_in(db, q, t)
            /\ \A q \in DbPrograms : last_resynced_in(db', q) = last_resynced_in(db, q)

\* C23: register_transaction(p, s) on a registry that holds (p, s) leaves the
\* DB as it is; after it is_transaction_registered(p, s) is true; and it
\* changes is_transaction_registered for no other pair and the cursor of no
\* program.
C23_RegisterIdempotent == [][C23_Step]_vars

\* (p, s) was registered a second time, beside another pair and a cursor
C23_Witness ==
    /\ db_call.op = "register_transaction"
    /\ db_call.ok
    /\ db_call.known
    /\ \E q \in DbPrograms, t \in DbSignatures :
          /\ <<q, t>> # <<db_call.program_id, db_call.transaction>>
          /\ registered_in(db, q, t)
    /\ \E q \in DbPrograms : last_resynced_in(db, q) # <<>>

\* C36 as stated: a call of initialize_if_needed_resynced_transaction does
\* not replace a value that the cursor of its program holds, however the call
\* is interleaved with set_last_resynced_transaction and with other calls of
\* initialize_if_needed_resynced_transaction.
C36_Original ==
    [][(db_call' # db_call
          /\ db_call'.op = "initialize_if_needed_resynced_transaction"
          /\ last_resynced_in(db, db_call'.program_id) # <<>>) =>
             last_resynced_in(db', db_call'.program_id) =
                last_resynced_in(db, db_call'.program_id)]_vars

(***************************************************************************)
(* transaction_parser.rs: get_assets_changes.  A token balance is the      *)
(* wallet context WalletContext::try_new makes of it and the amount its    *)
(* text parses to, if it parses.  A list of balances is an Option: <<>> is *)
(* None, <<list>> is Some(list).                                           *)
(***************************************************************************)
WalletContexts == {"w1", "w2"}

TokenBalances ==
    [wallet : WalletContexts, parses : {TRUE}, amount : {1, 2}]
        \cup [wallet : WalletContexts, parses : {FALSE}, amount : {0}]

BalanceLists == UNION {[1..n -> TokenBalances] : n \in 0..MaxBalances}

OptionalBalanceLists == {<<>>} \cup {<<list>> : list \in BalanceLists}

InitAssets ==
    /\ \E pre \in OptionalBalanceLists, post \in OptionalBalanceLists :
          assets = [pc |-> "zip", pre_token_balances |-> pre,
                    post_token_balances |-> post, balances_diff |-> <<>>,
                    folded |-> 0, ret |-> NoRet]
    /\ fetch = [pc |-> "off"]
    /\ db = {}
    /\ db_call = [op |-> "none"]
    /\ db_pending = {}
    /\ dispatch = [pc |-> "off"]
    /\ ProgramOff

AssetsStep ==
    UNCHANGED <<log_vars, ix_vars, join_vars, svc_vars, fetch, db, db_call, db_pending,
                dispatch>>

\* a zip that takes an absent list for an empty one
zip_or_empty(pre, post) ==
    <<IF pre = <<>> THEN <<>> ELSE pre[1], IF post = <<>> THEN <<>> ELSE post[1]>>

\* pre_token_balances.zip(post_token_balances): <<>> is None, else the pair
zip(pre, post) ==
    IF pre = <<>> \/ post = <<>> THEN <<>> ELSE <<pre[1], post[1]>>

\* .collect::<Result<HashMap<_, _>, Error>>(): the last balance of a wallet
\* context stays
RECURSIVE collect(_)
collect(balances) ==
    IF balances = <<>> THEN <<>>
    ELSE LET last == balances[Len(balances)]
             front == collect(SubSeq(balances, 1, Len(balances) - 1))
         IN [w \in DOMAIN front \cup {last.wallet} |->
                IF w = last.wallet THEN last.amount ELSE front[w]]

\* *balances_diff.entry(wallet_ctx).or_insert(0) -= pre_balance
subtracted(balances_diff, balance) ==
    [w \in DOMAIN balances_diff \cup {balance.wallet} |->
        IF w = balance.wallet
        THEN (IF w \in DOMAIN balances_diff THEN balances_diff[w] ELSE 0) - balance.amount
        ELSE balances_diff[w]]

AssetsReturns(r) == assets' = [assets EXCEPT !.pc = "returned", !.ret = r]

\* the zip of the two lists and, if both are there, the collect of the post
\* balances
AssetsZip ==
    /\ assets.pc = "zip"
    /\ LET both == zip(assets.pre_token_balances, assets.post_token_balances)
       IN IF both = <<>>
          THEN AssetsReturns(RetOk(<<>>))
          ELSE IF \E i \in DOMAIN both[2] : ~both[2][i].parses
          THEN AssetsReturns(RetErr([kind |-> "ParseIntError"]))
          ELSE assets' = [assets EXCEPT !.pc = "fold",
                                        !.balances_diff = collect(both[2])]
    /\ AssetsStep

\* one step of the try_fold over the pre balances
AssetsFold ==
    /\ assets.pc = "fold"
    /\ assets.folded < Len(assets.pre_token_balances[1])
    /\ LET balance == assets.pre_token_balances[1][assets.folded + 1]
       IN IF ~balance.parses
          THEN AssetsReturns(RetErr([kind |-> "ParseIntError"]))
          ELSE assets' = [assets EXCEPT !.folded = @ + 1,
                                        !.balances_diff = subtracted(@, balance)]
    /\ AssetsStep

\* the fold is through: Ok(balances_diff)
AssetsEnd ==
    /\ assets.pc = "fold"
    /\ assets.folded = Len(assets.pre_token_balances[1])
    /\ AssetsReturns(RetOk(assets.balances_diff))
    /\ AssetsStep

NextAssets == AssetsZip \/ AssetsFold \/ AssetsEnd

SpecAssets == InitAssets /\ [][NextAssets]_vars

\* the balances of a list that may be absent
ListOf(optional) == IF optional = <<>> THEN <<>> ELSE optional[1]

\* the amount of a wallet context in a list (0 when it is not there)
AmountIn(list, w) ==
    IF \E i \in DOMAIN list : list[i].wallet = w
    THEN list[CHOOSE i \in DOMAIN list : list[i].wallet = w].amount
    ELSE 0

\* every amount parses and no wallet context comes twice in a list
PlainBalances(list) ==
    /\ \A i \in DOMAIN list : list[i].parses
    /\ \A i, j \in DOMAIN list : list[i].wallet = list[j].wallet => i = j

\* C24 as stated: get_assets_changes returns, for each wallet context of the
\* pre or the post balances, post amount minus pre amount, a missing side
\* counting as 0, and raises no error, also when one of the two lists is absent
\* as a whole.
C24_Original ==
    LET pre == ListOf(assets.pre_token_balances)
        post == ListOf(assets.post_token_balances)
    IN (assets.pc = "returned" /\ PlainBalances(pre) /\ PlainBalances(post)) =>
          /\ assets.ret.kind = "Ok"
          /\ DOMAIN assets.ret.map =
                {pre[i].wallet : i \in DOMAIN pre} \cup {post[i].wallet : i \in DOMAIN post}
          /\ \A w \in DOMAIN assets.ret.map :
                assets.ret.map[w] = AmountIn(post, w) - AmountIn(pre, w)

\* C24: with both lists there, get_assets_changes returns, for each wallet
\* context of the pre or the post balances, post amount minus pre amount, a
\* missing side counting as 0; with one of the two lists absent as a whole it
\* returns Ok with an empty map, whatever the other list holds.
C24_AssetsDiff ==
    /\ (assets.pre_token_balances # <<>> /\ assets.post_token_balances # <<>>) =>
          C24_Original
    /\ (assets.pc = "returned"
          /\ (assets.pre_token_balances = <<>> \/ assets.post_token_balances = <<>>)) =>
          assets.ret = RetOk(<<>>)

\* a wallet context of the post balances alone kept its amount and one of the
\* pre balances alone got the negated amount
C24_Witness ==
    /\ assets.pc = "returned"
    /\ assets.ret.kind = "Ok"
    /\ \E w, v \in DOMAIN assets.ret.map :
          /\ assets.ret.map[w] > 0
          /\ AmountIn(ListOf(assets.pre_token_balances), w) = 0
          /\ assets.ret.map[v] < 0
          /\ AmountIn(ListOf(assets.post_token_balances), v) = 0

\* one list is absent, the other is not empty, and the call returned
C24_OneAbsent ==
    /\ assets.pc = "returned"
    /\ assets.pre_token_balances = <<>>
    /\ assets.post_token_balances # <<>>
    /\ assets.post_token_balances[1] # <<>>

(***************************************************************************)
(* transaction_parser.rs: InstructionDecomposer::is_decomposable and       *)
(* find_and_decompose_ix_with_decomposer; instruction_parser.rs:           *)
(* ParseInstruction::parse_instruction.  One instruction of the meta is    *)
(* offered to the decomposers in their order; a byte is 0 or 1.            *)
(***************************************************************************)
DISCRIMINATOR_SIZE == 8

Bytes == {0, 1}

ProgramIds == {"p1", "p2"}

\* IX::discriminator() of the handlers
Discriminators ==
    {[i \in 1..DISCRIMINATOR_SIZE |-> 0],
     [i \in 1..DISCRIMINATOR_SIZE |-> IF i = 1 THEN 1 ELSE 0]}

\* a handler type IX: its owner and its discriminator
Handlers == [owner : ProgramIds, discriminator : Discriminators]

\* raw_ix.data
InstructionData == UNION {[1..n -> Bytes] : n \in 0..MaxData}

InitDispatch ==
    /\ \E call \in {"find_and_decompose", "parse_instruction"},
          program_id \in ProgramIds, ix_program_id \in ProgramIds,
          data \in InstructionData, first \in Handlers, second \in Handlers :
          dispatch = [pc |-> call,
                      program_ctx |-> [program_id |-> program_id],
                      raw_ix |-> [program_id |-> ix_program_id, data |-> data],
                      decomposers |-> IF call = "parse_instruction"
                                      THEN <<first>>
                                      ELSE <<first, second>>,
                      i |-> 1, skipped |-> {}, applied |-> 0, ret |-> NoRet]
    /\ fetch = [pc |-> "off"]
    /\ db = {}
    /\ db_call = [op |-> "none"]
    /\ db_pending = {}
    /\ assets = [pc |-> "off"]
    /\ ProgramOff

DispatchStep ==
    UNCHANGED <<log_vars, ix_vars, join_vars, svc_vars, fetch, db, db_call, db_pending,
                assets>>

\* slice::split_at(mid): panics when mid > len
split_at(data, mid) ==
    IF mid > Len(data)
    THEN [panic |-> TRUE, head |-> <<>>, tail |-> <<>>]
    ELSE [panic |-> FALSE, head |-> SubSeq(data, 1, mid),
          tail |-> SubSeq(data, mid + 1, Len(data))]

\* is_decomposable: "true", "false", or "panic"; && evaluates its right side
\* only when its left side is true
is_decomposable(handler, program_ctx, raw_ix) ==
    IF program_ctx.program_id # handler.owner THEN "false"
    ELSE IF handler.owner # raw_ix.program_id THEN "false"
    ELSE LET halves == split_at(raw_ix.data, DISCRIMINATOR_SIZE)
         IN IF halves.panic THEN "panic"
            ELSE IF handler.discriminator = halves.head THEN "true" ELSE "false"

\* parse_instruction::<I>: "Some", "None", or "panic"; the split comes first
parse_instruction(handler, raw_ix) ==
    LET halves == split_at(raw_ix.data, DISCRIMINATOR_SIZE)
    IN IF halves.panic THEN "panic"
       ELSE IF handler.owner = raw_ix.program_id /\ handler.discriminator = halves.head
            THEN "Some" ELSE "None"

DispatchReturns(r) == dispatch' = [dispatch EXCEPT !.pc = "returned", !.ret = r]

\* decomposers.iter().find(..): is_decomposable of the next decomposer
DispatchFind ==
    /\ dispatch.pc = "find_and_decompose"
    /\ dispatch.i <= Len(dispatch.decomposers)
    /\ LET answer == is_decomposable(dispatch.decomposers[dispatch.i],
                                     dispatch.program_ctx, dispatch.raw_ix)
       IN CASE answer = "panic" -> DispatchReturns(Panicked)
            [] answer = "true" ->
                  dispatch' = [dispatch EXCEPT !.pc = "decompose",
                                               !.applied = dispatch.i]
            [] answer = "false" ->
                  dispatch' = [dispatch EXCEPT !.i = @ + 1,
                                               !.skipped = @ \cup {dispatch.i}]
    /\ DispatchStep

\* find(..) is None: filter_map drops the instruction, collect gives Ok(vec![])
DispatchNotFound ==
    /\ dispatch.pc = "find_and_decompose"
    /\ dispatch.i > Len(dispatch.decomposers)
    /\ DispatchReturns(RetOk(<<>>))
    /\ DispatchStep

\* decompose_instruction: the accounts do or do not make [Pubkey; ACCOUNTS_COUNT]
DispatchDecompose ==
    /\ dispatch.pc = "decompose"
    /\ \E accounts_fit \in BOOLEAN :
          IF accounts_fit
          THEN DispatchReturns(RetOk(<<dispatch.applied>>))
          ELSE DispatchReturns(RetErr("InvalidData"))
    /\ DispatchStep

\* raw_ix.parse_instruction::<I>()
DispatchParse ==
    /\ dispatch.pc = "parse_instruction"
    /\ LET answer == parse_instruction(dispatch.decomposers[1], dispatch.raw_ix)
       IN CASE answer = "panic" -> DispatchReturns(Panicked)
            [] answer = "None" ->
                  dispatch' = [dispatch EXCEPT !.pc = "returned", !.skipped = {1},
                                               !.ret = RetOk(<<>>)]
            [] answer = "Some" ->
                  \E deserialized \in BOOLEAN :
                     dispatch' = [dispatch EXCEPT
                                     !.pc = "returned", !.applied = 1,
                                     !.ret = IF deserialized THEN RetOk(<<1>>)
                                             ELSE RetErr("InvalidData")]
    /\ DispatchStep

NextDispatch == DispatchFind \/ DispatchNotFound \/ DispatchDecompose \/ DispatchParse

SpecDispatch == InitDispatch /\ [][NextDispatch]_vars

\* the precondition of a handler for the instruction, as the specification has
\* it; parse_instruction has no program context to compare
Precondition(handler) ==
    /\ Len(dispatch.decomposers) > 1 =>
          dispatch.program_ctx.program_id = dispatch.raw_ix.program_id
    /\ dispatch.raw_ix.program_id = handler.owner
    /\ Len(dispatch.raw_ix.data) >= DISCRIMINATOR_SIZE
    /\ SubSeq(dispatch.raw_ix.data, 1, DISCRIMINATOR_SIZE) = handler.discriminator

\* C25 as stated: a handler whose precondition does not hold for the
\* instruction, whether by the program ids, by the first 8 bytes of the data
\* or by data shorter than 8 bytes, is skipped without error or panic, and a
\* handler is applied only when its precondition holds.
C25_Original ==
    dispatch.pc = "returned" =>
       /\ dispatch.ret.kind # "Panic"
       /\ dispatch.applied # 0 => Precondition(dispatch.decomposers[dispatch.applied])
       /\ (\A h \in DOMAIN dispatch.decomposers :
              ~Precondition(dispatch.decomposers[h])) =>
             dispatch.ret = RetOk(<<>>)

\* the same with at least 8 bytes of data
C25_LongData ==
    Len(dispatch.raw_ix.data) >= DISCRIMINATOR_SIZE => C25_Original

(***************************************************************************)
(* Properties of bind_transaction_instructions_logs, checked under SpecTx. *)
(***************************************************************************)
\* every invocation of the transaction wrote exactly one invoke line (the log
\* may be cut behind any of its lines) and the inner-instruction lists are in
\* execution order
C1_Precondition ==
    /\ tx.inner_instructions = InnerInstructions(tx.execution)
    /\ LET full == RenderLog(tx.execution, 1, <<>>)
       IN \/ tx.log_messages = full
          \/ \E cut \in 0..(Len(full) - 1) :
                tx.log_messages = SubSeq(full, 1, cut) \o <<TruncatedLine>>

\* C1: call-index parity.  For a transaction whose invocations each wrote one
\* invoke line and whose inner-instruction lists are in execution order, the
\* n-th Invoke line of the log gets from bind_events the program id and call
\* index that bind_instructions gave the n-th instruction it bound (each
\* top-level instruction followed by its inner ones), which is the n-th
\* invocation of the execution; bind_events succeeds, and every key of its
\* output has its (program_id, call_index) exactly once among the contexts
\* of bind_instructions and as a key of its result.
C1_CallIndexParity ==
    (C1_Precondition /\ ix_ret.kind = "Ok") =>
        /\ Len(bound) = Len(tx.execution)
        /\ Len(invoked) <= Len(bound)
        /\ \A n \in 1..Len(invoked) :
              /\ invoked[n].program_id = tx.execution[n].program_id
              /\ bound[n].program_id = invoked[n].program_id
              /\ bound[n].call_index = invoked[n].call_index
        /\ pc \in {"stopped", "exhausted"} =>
              /\ ret.kind = "Ok"
              /\ \A c \in DOMAIN ret.map :
                    /\ Cardinality({n \in 1..Len(bound) :
                                       /\ bound[n].program_id = c.program_id
                                       /\ bound[n].call_index = c.call_index}) = 1
                    /\ [program_id |-> c.program_id, call_index |-> c.call_index]
                           \in DOMAIN ix_ret.map

\* a whole log of four invocations is parsed, both programs ran, and one
\* program ran at depth 1 and again, with a later call index, below depth 1
C1_Witness ==
    /\ C1_Precondition
    /\ ix_ret.kind = "Ok"
    /\ pc = "exhausted"
    /\ ret.kind = "Ok"
    /\ Len(invoked) = MaxInvocations
    /\ \E a, b \in 1..Len(invoked) :
          invoked[a].program_id # invoked[b].program_id
    /\ \E a, b \in 1..Len(invoked) :
          /\ a < b
          /\ invoked[a].program_id = invoked[b].program_id
          /\ invoked[a].invoke_level = 1
          /\ invoked[b].invoke_level > 1
          /\ invoked[b].call_index > invoked[a].call_index
          /\ invoked[b] \in DOMAIN ret.map

\* the positions of the Invoke events in a list of events
InvokesIn(events) == {n \in 1..Len(events) : events[n].type = "Invoke"}

\* C11: in every successful result of parse_events, an Invoke(child) among the
\* events of ctx has child.invoke_level = ctx.invoke_level + 1.
C11_Original ==
    ret.kind = "Ok" =>
        \A ctx \in DOMAIN ret.map :
            \A n \in InvokesIn(ret.map[ctx]) :
                ret.map[ctx][n].ctx.invoke_level = ctx.invoke_level + 1

\* the other half of C11: the joined parent_ix maps every child named by an
\* Invoke event of ctx to ctx, and nothing else
C11_ParentIx ==
    tx_ret.kind = "Ok" =>
        /\ \A ctx \in DOMAIN tx_ret.meta :
              \A n \in InvokesIn(tx_ret.meta[ctx].events) :
                  LET child == tx_ret.meta[ctx].events[n].ctx
                  IN child \in DOMAIN tx_ret.parent_ix /\ tx_ret.parent_ix[child] = ctx
        /\ \A child \in DOMAIN tx_ret.parent_ix :
              \E n \in InvokesIn(tx_ret.meta[tx_ret.parent_ix[child]].events) :
                  tx_ret.meta[tx_ret.parent_ix[child]].events[n].ctx = child

C12_Step ==
    (tx_pc = "join" /\ pending # {} /\ (tx_ret' # tx_ret \/ pending' # pending)) =>
        \E ctx \in pending :
            LET key == [program_id |-> ctx.program_id, call_index |-> ctx.call_index]
            IN IF /\ key \in DOMAIN tx_instructions
                  /\ (tx_instructions[key].outer = "None") <=> (ctx.invoke_level = 1)
               THEN /\ meta' = meta @@ (ctx :> [ix |-> tx_instructions[key].ix,
                                               events |-> ret.map[ctx]])
                    /\ ctx \notin DOMAIN meta
                    /\ pending' = pending \ {ctx}
                    /\ key \notin DOMAIN tx_instructions'
                    /\ DOMAIN tx_instructions' = DOMAIN tx_instructions \ {key}
                    /\ tx_ret' = [kind |-> "none"]
               ELSE /\ tx_ret' = [kind |-> "Err",
                                  err |-> [kind |-> "InstructionLogsConsistencyError",
                                           ctx |-> key]]
                    /\ tx_pc' = "returned"

C12_Final ==
    /\ tx_ret.kind = "Err" => DOMAIN tx_ret = {"kind", "err"}
    /\ tx_ret.kind = "Ok" =>
          /\ DOMAIN tx_ret.meta = DOMAIN ret.map
          /\ \A ctx \in DOMAIN ret.map :
                /\ tx_ret.meta[ctx].events = ret.map[ctx]
                /\ tx_ret.meta[ctx].ix =
                      ix_ret.map[[program_id |-> ctx.program_id,
                                  call_index |-> ctx.call_index]].ix

\* C12: the join pairs each entry (ctx, events) of the parse_events map with the
\* instruction bind_instructions stored under (ctx.program_id, ctx.call_index)
\* and removes it from the binder's map; when the key is missing, or when it
\* is not so that outer is None exactly at invoke_level 1, it returns
\* InstructionLogsConsistencyError and no TransactionParsedMeta; when it
\* returns Ok, every entry of the parse_events map is paired.
C12_JoinPairsOrFails == [][C12_Step]_vars /\ []C12_Final

\* the join failed on an entry whose key the binder has, at the wrong level
C12_Witness ==
    /\ tx_ret.kind = "Err"
    /\ tx_ret.err.kind = "InstructionLogsConsistencyError"
    /\ tx_ret.err.ctx \in DOMAIN ix_ret.map
    /\ meta # <<>>

\* the join failed on an entry whose key the binder does not have
C12_MissingKey ==
    /\ tx_ret.kind = "Err"
    /\ tx_ret.err.kind = "InstructionLogsConsistencyError"
    /\ tx_ret.err.ctx \notin DOMAIN ix_ret.map

\* the (program_id, call_index) of the joined contexts of invoke_level 1
JoinedTopLevel ==
    {[program_id |-> ctx.program_id, call_index |-> ctx.call_index] :
        ctx \in {c \in DOMAIN tx_ret.meta : c.invoke_level = 1}}

\* the binder's contexts whose outer is None
BoundTopLevel == {key \in DOMAIN ix_ret.map : ix_ret.map[key].outer = "None"}

\* the invoke lines of level 1 parse_events has read
TopLevelLinesRead ==
    {n \in 1..index : input[n].shape = "program_invoke" /\ input[n].level = 1}

\* C13 as stated: whenever the join succeeds, also on a truncated log, the
\* joined contexts of invoke_level 1 are exactly the binder's contexts whose
\* outer is None.
C13_Original == tx_ret.kind = "Ok" => JoinedTopLevel = BoundTopLevel

\* C13, amended: whenever the join succeeds, the joined contexts of
\* invoke_level 1 are among the binder's contexts whose outer is None, and they
\* are all of them when parse_events read an invoke line of level 1 for every
\* instruction of the message.
C13_TopLevelJoined ==
    tx_ret.kind = "Ok" =>
        /\ JoinedTopLevel \subseteq BoundTopLevel
        /\ Cardinality(TopLevelLinesRead) = Len(tx.instructions)
              => JoinedTopLevel = BoundTopLevel

\* a truncated log that still holds the invoke line of both top-level
\* instructions, one of them with an inner instruction, is joined
C13_Witness ==
    /\ tx_ret.kind = "Ok"
    /\ Len(tx.instructions) = 2
    /\ tx.inner_instructions # <<>>
    /\ input # <<>>
    /\ input[Len(input)] = [shape |-> "log_truncated"]
    /\ Cardinality(TopLevelLinesRead) = Len(tx.instructions)
    /\ Cardinality(JoinedTopLevel) = 2
    /\ JoinedTopLevel = BoundTopLevel

\* the frames of all the inner-instruction lists of the transaction
InnerFrames ==
    UNION {{<<m, j>> : j \in 1..Len(tx.inner_instructions[m].instructions)} :
           m \in 1..Len(tx.inner_instructions)}

\* C14: the map bind_instructions returns has exactly one entry per top-level
\* instruction, with outer None, and one per inner instruction of every list,
\* with outer the program of the instruction the list names, whatever the
\* shape of the lists.
C14_Original ==
    ix_ret.kind = "Ok" =>
        /\ Cardinality(DOMAIN ix_ret.map) = Len(tx.instructions) + Cardinality(InnerFrames)
        /\ Cardinality({k \in DOMAIN ix_ret.map : ix_ret.map[k].outer = "None"})
              = Len(tx.instructions)

\* C15: bind_instructions ends with a value, Ok or a typed Err, on every
\* transaction: it never panics.
C15_Original == ix_pc = "returned" => ix_ret.kind \in {"Ok", "Err"}

(***************************************************************************)
(* Properties of parse_events, checked under Spec.                         *)
(***************************************************************************)

\* the line the loop took in this step, and its zero-based place in the slice
TookLine == pc = "loop" /\ index' = index + 1

Taken == input'[index']

\* the places, among the first n lines, of the well-formed invoke lines
AllInvokeLines(n) ==
    {i \in 1..n : /\ input[i].shape = "program_invoke"
                  /\ input[i].id \in Pubkeys
                  /\ input[i].level \in 1..255}

\* ... and of those of program p
InvokeLinesOf(p, n) == {i \in AllInvokeLines(n) : input[i].id = p}

\* C2: after parse_events succeeds, the keys of each program carry the call
\* indices 0..k-1, each once, k being the number of invoke lines of the program
\* that were processed; the k-th invoke line of a program, at whatever depth,
\* made the key with call_index k-1.
C2_CallIndexDense ==
    ret.kind = "Ok" =>
        /\ \A p \in Pubkeys :
              LET k == Cardinality(InvokeLinesOf(p, index))
                  keys == {c \in DOMAIN ret.map : c.program_id = p}
              IN /\ {c.call_index : c \in keys} = 0..(k - 1)
                 /\ Cardinality(keys) = k
        /\ Len(invoked) = Cardinality(AllInvokeLines(index))
        /\ \A i \in AllInvokeLines(index) :
              LET nth == Cardinality({m \in AllInvokeLines(index) : m <= i})
                  made == ProgramContext(input[i].id,
                                         Cardinality(InvokeLinesOf(input[i].id, i - 1)),
                                         input[i].level)
              IN invoked[nth] = made /\ made \in DOMAIN ret.map

C2_Witness ==
    /\ ret.kind = "Ok"
    /\ {ProgramContext("P", 0, 1), ProgramContext("Q", 0, 2), ProgramContext("P", 1, 2)}
          \subseteq DOMAIN ret.map
    /\ Cardinality(InvokeLinesOf("P", index)) = 2

\* the input of the nested scenario and the map it yields
NestedExample ==
    << [shape |-> "program_invoke", id |-> "P", level |-> 1],
       [shape |-> "program_log", text |-> "L1"],
       [shape |-> "program_invoke", id |-> "Q", level |-> 2],
       [shape |-> "program_success_result", id |-> "Q"],
       [shape |-> "program_log", text |-> "L2"],
       [shape |-> "program_success_result", id |-> "P"] >>

NestedExpected ==
    (ProgramContext("P", 0, 1) :>
        << [type |-> "Log", text |-> "L1"],
           [type |-> "Invoke", ctx |-> ProgramContext("Q", 0, 2)],
           [type |-> "Log", text |-> "L2"] >>)
    @@ (ProgramContext("Q", 0, 2) :> <<>>)

C3_Step ==
    (/\ TookLine
     /\ Taken.shape = "program_invoke"
     /\ Taken.id \in Pubkeys
     /\ Taken.level \in 1..255)
    => LET child == ProgramContext(Taken.id,
                                   Cardinality(InvokeLinesOf(Taken.id, index)),
                                   Taken.level)
       IN /\ child \notin DOMAIN result
          /\ DOMAIN result' = DOMAIN result \cup {child}
          /\ result'[child] = <<>>
          /\ pc' = "loop"
          /\ IF programs_stack # <<>>
             THEN LET parent == programs_stack[Len(programs_stack)]
                  IN /\ result'[parent] =
                            Append(result[parent], [type |-> "Invoke", ctx |-> child])
                     /\ \A c \in DOMAIN result \ {parent} : result'[c] = result[c]
             ELSE \A c \in DOMAIN result : result'[c] = result[c]

C3_Keys ==
    /\ \A n \in 1..Len(invoked) : invoked[n] \in DOMAIN result
    /\ (pc = "exhausted" /\ input = NestedExample) => ret = [kind |-> "Ok", map |-> NestedExpected]

\* C3: an Invoke line read while the stack is not empty appends Invoke(child) to
\* the events of the context on top of the stack and inserts an empty entry for
\* the child; every context invoked is a key of the map, and the nested scenario
\* yields exactly (P,0,1) -> [Log L1, Invoke(Q,0,2), Log L2], (Q,0,2) -> [].
C3_InvokeRecordedInParent == [][C3_Step]_vars /\ []C3_Keys

C3_Witness ==
    /\ pc = "exhausted"
    /\ input = NestedExample
    /\ ret.kind = "Ok"
    /\ ret.map = NestedExpected

\* the context on top of the invocation stack
Top == programs_stack[Len(programs_stack)]

IsErr(r) == r.kind = "Err" /\ DOMAIN r = {"kind", "err"}

\* the ProgramLog a Log, Data or Return line stands for
EventOf(line) ==
    CASE line.shape = "program_log" -> [type |-> "Log", text |-> line.text]
      [] line.shape = "program_data" -> [type |-> "Data", text |-> line.text]
      [] line.shape = "program_return" ->
            [type |-> "Return", program_id |-> line.id, data |-> line.text]

C4_Step ==
    (/\ TookLine
     /\ Taken.shape \in {"program_log", "program_data", "program_return"}
     /\ Taken.shape = "program_return" => Taken.id \in Pubkeys)
    => IF programs_stack # <<>>
       THEN /\ Top \in DOMAIN result
            /\ result' = [result EXCEPT ![Top] = Append(@, EventOf(Taken))]
            /\ pc' = "loop"
            /\ ret' = ret
       ELSE /\ pc' = "stopped"
            /\ ret' = [kind |-> "Err",
                       err |-> [kind |-> "EmptyInvokeLogContext", index |-> index]]

\* C4: a Log, Data or Return line is appended to the events of the context on
\* top of the stack when it is read, and to no other entry; read on an empty
\* stack it makes bind_events fail with EmptyInvokeLogContext and the line's
\* zero-based index.
C4_EventsGoToTop == [][C4_Step]_vars

C4_Witness ==
    /\ Len(programs_stack) = 2
    /\ result[Top] = << [type |-> "Data", text |-> "D1"],
                        [type |-> "Return", program_id |-> "Q", data |-> "R1"] >>
    /\ result[programs_stack[1]] = << [type |-> "Invoke", ctx |-> Top] >>

C5_Step ==
    (/\ TookLine
     /\ Taken.shape = "program_success_result"
     /\ Taken.id \in Pubkeys)
    => IF programs_stack # <<>> /\ Top.program_id = Taken.id
       THEN /\ programs_stack' = SubSeq(programs_stack, 1, Len(programs_stack) - 1)
            /\ pc' = "loop"
            /\ result' = result
            /\ ret' = ret
       ELSE /\ pc' = "stopped"
            /\ IsErr(ret')
            /\ ret'.err.kind = "UnexpectedProgramResult"
            /\ ret'.err.index = index

\* C5: a Success line pops the top of the stack when the popped context is of
\* the line's program; on another program on top, or an empty stack, bind_events
\* fails with UnexpectedProgramResult and the line's index, and returns no map.
C5_SuccessPopsMatching == [][C5_Step]_vars

C5_Witness ==
    /\ IsErr(ret)
    /\ ret.err.kind = "UnexpectedProgramResult"
    /\ ret.err.index = 3
    /\ Len(invoked) = 2
    /\ input[3].shape = "program_success_result"

C6_Step ==
    (/\ TookLine
     /\ Taken.shape = "program_consumed"
     /\ Taken.id \in Pubkeys
     /\ programs_stack # <<>>)
    => IF Top.program_id # Taken.id
       THEN /\ pc' = "stopped"
            /\ ret' = [kind |-> "Err",
                       err |-> [kind |-> "MissplaceConsumed",
                                expected_program |-> Top.program_id,
                                consumed_program_id |-> Taken.id,
                                index |-> index]]
       ELSE /\ pc' = "loop"
            /\ result' = [result EXCEPT ![Top] =
                             Append(@, [type |-> "Consumed",
                                        consumed |-> Taken.consumed,
                                        all |-> Taken.all])]

MisplacedExample ==
    << [shape |-> "program_invoke", id |-> "P", level |-> 1],
       [shape |-> "program_consumed", id |-> "Q", consumed |-> 1, all |-> 2] >>

C6_Example ==
    input = MisplacedExample =>
        ret = [kind |-> "Err",
               err |-> [kind |-> "MissplaceConsumed", expected_program |-> "P",
                        consumed_program_id |-> "Q", index |-> 1]]

\* C6: a Consumed line of another program than the one on top of the stack
\* fails with MissplaceConsumed{expected: the top's program, got: the line's,
\* index: the line's zero-based index}; of the same program, Consumed{consumed,
\* all} is appended to the top context's events.
C6_ConsumedChecked == [][C6_Step]_vars /\ []C6_Example

C6_Witness ==
    /\ input = MisplacedExample
    /\ IsErr(ret)
    /\ ret.err.kind = "MissplaceConsumed"

C7_Step ==
    /\ (/\ TookLine
        /\ Taken.shape = "program_failed_result"
        /\ Taken.id \in Pubkeys)
       => /\ pc' = "stopped"
          /\ ret' = [kind |-> "Err",
                     err |-> [kind |-> "ErrorLog", program_id |-> Taken.id,
                              err |-> Taken.err, index |-> index]]
    /\ (TookLine /\ Taken.shape = "program_complete_failed_result")
       => /\ pc' = "stopped"
          /\ ret' = [kind |-> "Err",
                     err |-> [kind |-> "ErrorToCompleteLog", err |-> Taken.err,
                              index |-> index]]

FailedInnerExample ==
    << [shape |-> "program_invoke", id |-> "P", level |-> 1],
       [shape |-> "program_invoke", id |-> "Q", level |-> 2],
       [shape |-> "program_failed_result", id |-> "Q", err |-> "custom 0x1"] >>

C7_Example ==
    input = FailedInnerExample =>
        ret = [kind |-> "Err",
               err |-> [kind |-> "ErrorLog", program_id |-> "Q",
                        err |-> "custom 0x1", index |-> 2]]

\* C7: a Failed line read at zero-based position i aborts bind_events with
\* ErrorLog{the line's program, err, i}, a FailedComplete line with
\* ErrorToCompleteLog{err, i}, whatever is on the stack; no map is returned.
C7_FailedAborts == [][C7_Step]_vars /\ []C7_Example

C7_Witness ==
    /\ input = FailedInnerExample
    /\ IsErr(ret)
    /\ ret.err.kind = "ErrorLog"
    /\ Len(programs_stack) = 2

C8_Step ==
    /\ (TookLine /\ Taken.shape = "log_truncated")
       => /\ pc' = "stopped"
          /\ ret' = [kind |-> "Ok", map |-> result]
          /\ \A d \in 1..Len(programs_stack) : programs_stack[d] \in DOMAIN ret'.map
    /\ pc # "loop" => ret' = ret

TruncatedExample == SubSeq(NestedExample, 1, 5) \o <<[shape |-> "log_truncated"]>>

\* C8: a Truncated line ends parsing with Ok and exactly the map built from the
\* lines before it, the entries of the contexts still on the stack included;
\* nothing behind it changes what was returned.
C8_TruncatedReturnsPartial == [][C8_Step]_vars

C8_Witness ==
    /\ input = TruncatedExample
    /\ pc = "stopped"
    /\ ret = [kind |-> "Ok", map |-> NestedExpected]
    /\ programs_stack = <<ProgramContext("P", 0, 1)>>

\* a line Log::new turns down
Malformed(line) ==
    \/ line.shape = "bad"
    \/ "id" \in DOMAIN line /\ line.id \notin Pubkeys
    \/ line.shape = "program_invoke" /\ line.level \notin 1..255

\* a line that breaks one of the rules bind_events checks, on the stack it meets
BreaksRule(line, stack) ==
    \/ line.shape \in {"program_failed_result", "program_complete_failed_result"}
    \/ /\ line.shape = "program_success_result"
       /\ (stack = <<>> \/ stack[Len(stack)].program_id # line.id)
    \/ /\ line.shape = "program_consumed"
       /\ (stack = <<>> \/ stack[Len(stack)].program_id # line.id)
    \/ /\ line.shape \in {"program_log", "program_data", "program_return"}
       /\ stack = <<>>

\* the places of the slice up to its first Truncated line (all, if it has none)
BeforeTruncated ==
    {i \in 1..Len(input) : \A m \in 1..(i - 1) : input[m].shape # "log_truncated"}

\* C9 as stated: a malformed line anywhere in the input makes parse_events fail.
C9_Original ==
    (pc # "loop" /\ \E i \in 1..Len(input) : input[i].shape = "bad") => IsErr(ret)

C9_Step ==
    /\ (TookLine /\ (Malformed(Taken) \/ BreaksRule(Taken, programs_stack)))
       => pc' = "stopped" /\ IsErr(ret')
    /\ IsErr(ret) => ret' = ret

C9_Final ==
    (pc # "loop" /\ \E i \in BeforeTruncated : Malformed(input[i])) => IsErr(ret)

\* C9, amended: a line that is malformed or breaks a rule bind_events checks
\* (Success against the top of the stack, Consumed against the top of the stack,
\* Failed, FailedComplete, an event line on an empty stack) makes parse_events
\* return an error and no map when it stands at or before the first Truncated
\* line of the input; the lines behind the first Truncated line are never read.
C9_AllOrNothingUpToTruncated == [][C9_Step]_vars /\ []C9_Final

C9_Witness ==
    /\ IsErr(ret)
    /\ ret.err.kind = "BadLogLine"
    /\ index = 4
    /\ Len(programs_stack) = 1
    /\ Len(invoked) = 2

\* the depth of the stack when line i is read, in an input whose lines 1..i-1
\* were all accepted: the invokes minus the successes before it
DepthBefore(i) ==
    Cardinality(AllInvokeLines(i - 1))
    - Cardinality({m \in 1..(i - 1) : input[m].shape = "program_success_result"})

\* C10 as stated: in an accepted input every line "invoke [L]" is read at stack
\* depth L - 1, so that the depth right after it is L.
C10_Original ==
    ret.kind = "Ok" =>
        \A i \in AllInvokeLines(index) : input[i].level = DepthBefore(i) + 1

\* the iterator of bind_events is exhausted in this step
InputEnds == pc = "loop" /\ pc' = "exhausted"

\* C38 as stated: Ok is returned only with an empty invocation stack or behind
\* a Truncated line.
C38_Original == (pc # "loop" /\ ret.kind = "Ok") => (programs_stack = <<>> \/ pc = "stopped")

\* C38: at the end of the input parse_events returns Ok with the map built so
\* far whatever is left on the invocation stack, and Ok is returned at the end
\* of the input or at a Truncated line only.
C38_OpenInvocationsAccepted ==
    /\ [][InputEnds => ret' = [kind |-> "Ok", map |-> result]
                       /\ programs_stack' = programs_stack]_vars
    /\ []((pc # "loop" /\ ret.kind = "Ok") => pc \in {"exhausted", "stopped"})

\* a log that ends inside the inner invocation, with no Truncated line, was
\* accepted
C38_Witness ==
    /\ pc = "exhausted"
    /\ ret.kind = "Ok"
    /\ Len(programs_stack) = 2
    /\ \A i \in 1..Len(input) : input[i].shape # "log_truncated"
    /\ \A d \in 1..Len(programs_stack) : programs_stack[d] \in DOMAIN ret.map

====
